---- MODULE Spec2Model ----
(***************************************************************************)
(* The MCQ job pipeline of src/src/app/api/mcqs: the job record, the three *)
(* pipeline entry points (processJob, retryValidation, retryPersistence),  *)
(* the validation loop, the answer balancer and the routes that start      *)
(* runs.  One job id is modelled; every await of a run is a step, so runs  *)
(* of the same job interleave exactly where the event loop lets them.      *)
(***************************************************************************)
EXTENDS Integers, Sequences, FiniteSets, TLC

(***************************************************************************)
(* Bounds of the model.                                                    *)
(***************************************************************************)
\* Retry requests (validation-retry + persistence-retry) served for the job.
MaxRetryCalls == 1
\* Pipeline runs of the job that may be in flight at the same time.
MaxConcurrent == 2
\* Retry requests served for the job when requests come one at a time.
MaxSeqRetryCalls == 1

(***************************************************************************)
(* Program constants.                                                      *)
(***************************************************************************)
MAX_VALIDATION_ATTEMPTS == 2
\* maxAttempts handed to retryWithBackoff by processJob and the validator loop.
PipelineMaxAttempts == 6
LETTERS == <<"A", "B", "C", "D">>
CSV_HEADERS ==
    <<"Topic", "Question_text", "Option A", "Option B", "Option C", "Option D",
      "Correct_Answer", "Explanation">>

(***************************************************************************)
(* Optional values: undefined / null is <<>>, a present value v is <<v>>.  *)
(* Optional strings use the string NoString.                               *)
(***************************************************************************)
Undefined == <<>>
Def(v) == <<v>>
IsDef(o) == o # <<>>
NoString == "undefined"

(***************************************************************************)
(* Inputs.  payload.topics is a non-empty list of topic names (POST        *)
(* rejects an empty list); two topics may share a name.                    *)
(***************************************************************************)
TopicNames == {"T1", "T2"}
TopicLists == {<<"T1">>, <<"T1", "T2">>, <<"T1", "T1">>}

\* The retry entry points a client may call.
RetryKinds == {"retryValidation", "retryPersistence"}

\* The environment of a behaviour: the payloads clients post, the lengths of
\* the batches the generator returns (scaled down), the draws Math.random
\* yields and how clients issue retry requests.
\* Clients that overlap requests on one job, on the smallest payload.
OverlappingClients ==
    [topicLists |-> {<<"T1">>}, batchSizes |-> {1}, draws |-> {0, 6},
     retryKinds |-> RetryKinds, relabels |-> {},
     maxRetryCalls |-> MaxRetryCalls, maxConcurrent |-> MaxConcurrent]
\* A client that waits for a run to end before it asks for a retry.
SequentialClient ==
    [topicLists |-> TopicLists, batchSizes |-> {1}, draws |-> {0, 6},
     retryKinds |-> RetryKinds, relabels |-> {},
     maxRetryCalls |-> MaxSeqRetryCalls, maxConcurrent |-> 1]
\* A client that asks for the persistence retry again after a retry has ended.
MaxRepeatCalls == MaxSeqRetryCalls + 1
RepeatingClient ==
    [topicLists |-> {<<"T1">>}, batchSizes |-> {1}, draws |-> {0, 6},
     retryKinds |-> {"retryPersistence"}, relabels |-> {},
     maxRetryCalls |-> MaxRepeatCalls, maxConcurrent |-> 1]

\* A validator that may answer with a topic name of its own wording in place
\* of the name it was sent, to a client that waits for a run to end.
RelabellingValidator ==
    [topicLists |-> {<<"T1">>, <<"T1", "T2">>}, batchSizes |-> {1}, draws |-> {0, 6},
     retryKinds |-> RetryKinds, relabels |-> {"T9"},
     maxRetryCalls |-> MaxSeqRetryCalls, maxConcurrent |-> 1]

\* No client: a helper function is executed on its own, with every value
\* Math.random may round to among four.
NoClient ==
    [topicLists |-> {}, batchSizes |-> {}, draws |-> {0, 3, 6, 9},
     retryKinds |-> {}, relabels |-> {},
     maxRetryCalls |-> 0, maxConcurrent |-> 0]

\* Question i of the batch generated for the k-th topic of the payload.
GenItem(k, i) ==
    [bloom |-> "Remember", difficulty |-> "Easy", type |-> "recall",
     stem |-> "gen" \o ToString(k) \o ToString(i),
     options |-> <<"right", "wrong", "wrong", "wrong">>,
     correct_index |-> 0,
     explanation |-> "why-gen",
     source_spans |-> Def(<<[page |-> Def(1), text_snippet |-> "snip-gen"]>>)]
GenBatch(k, n) == [i \in 1..n |-> GenItem(k, i)]

\* The replacement the validator offers for a rejected question.
ReplacementMcq ==
    [bloom |-> NoString, difficulty |-> NoString, type |-> NoString,
     stem |-> "repl",
     options |-> Def(<<"new-right", "new-wrong", "new-wrong", "new-wrong">>),
     correct_index |-> Def(0),
     explanation |-> "why-repl",
     source_spans |-> Undefined,
     sources |-> Undefined]

\* Outcomes of one invocation of an upstream call.
TaskOutcomes == {"ok", "429", "529", "500", "nostatus"}

(***************************************************************************)
(* getErrorStatus: the numeric status an error carries, or null.           *)
(***************************************************************************)
getErrorStatus_always429(err) == Def(429)
getErrorStatus(err) ==
    CASE err = "429" -> Def(429)
      [] err = "529" -> Def(529)
      [] err = "500" -> Def(500)
      [] OTHER -> Undefined

(***************************************************************************)
(* retryWithBackoff, run on the list of outcomes the successive            *)
(* invocations of the task have: the result of the call, the number of     *)
(* invocations, the log lines emitted and the waits slept; `thrownAt` is   *)
(* the invocation whose error the executor rethrows (0: none of them).     *)
(***************************************************************************)
\* delay *= 2
nextDelay_constant(delay) == delay
nextDelay(delay) == delay * 2

RECURSIVE BackoffLoop(_, _, _, _, _)
BackoffLoop(outs, attempt, maxAttempts, delay, acc) ==
    IF attempt > maxAttempts
    THEN [acc EXCEPT !.result = "exhausted"]
    ELSE IF attempt > Len(outs)
    THEN [acc EXCEPT !.result = "pending"]
    ELSE LET o == outs[attempt]
             called == [acc EXCEPT !.calls = @ + 1]
         IN IF o = "ok"
            THEN [called EXCEPT !.result = "ok"]
            ELSE IF getErrorStatus(o) = Def(429) /\ attempt < maxAttempts
                 THEN BackoffLoop(outs, attempt + 1, maxAttempts, nextDelay(delay),
                                  [called EXCEPT !.logs = @ + 1,
                                                 !.waits = Append(@, delay)])
                 ELSE [called EXCEPT !.result = o, !.thrownAt = attempt]

retryWithBackoff_oneMore(outs, maxAttempts, initialDelayMs) ==
    BackoffLoop(outs, 1, maxAttempts + 1, initialDelayMs,
                [result |-> "pending", calls |-> 0, logs |-> 0, waits |-> <<>>,
                 thrownAt |-> 0])
retryWithBackoff(outs, maxAttempts, initialDelayMs) ==
    BackoffLoop(outs, 1, maxAttempts, initialDelayMs,
                [result |-> "pending", calls |-> 0, logs |-> 0, waits |-> <<>>,
                 thrownAt |-> 0])

\* The invocation histories a pipeline call is given: an immediate outcome,
\* or rate limiting on every invocation the executor makes.
TaskRuns ==
    {<<o>> : o \in TaskOutcomes \ {"429"}}
    \cup {[i \in 1..PipelineMaxAttempts |-> "429"]}

(***************************************************************************)
(* MCQ items are immutable values in the pipeline: no code path assigns to *)
(* a field of an item object or to an element of an options array          *)
(* (normalizeReplacementMcq and rebalanceCorrectOptions build new          *)
(* objects).  What is mutated in place are the `items` arrays of the topic *)
(* buckets, so those live in the heap below and buckets hold references.   *)
(***************************************************************************)
\* cloneMcqItem: a new object with copied options and source spans.
cloneMcqItem(item) ==
    [item EXCEPT !.options = [i \in 1..Len(item.options) |-> item.options[i]],
                 !.source_spans =
                     IF IsDef(@) THEN Def([i \in 1..Len(@[1]) |-> @[1][i]]) ELSE @]

\* items.map((item) => cloneMcqItem(item)): the contents of the new array.
cloneItems(items) == [i \in 1..Len(items) |-> cloneMcqItem(items[i])]

\* The address of the array `source.map(...)` evaluates to: always the newly
\* allocated one.
mappedArray_aliased(fresh, source) == source
mappedArray(fresh, source) == fresh

Pad4(options) ==
    IF Len(options) >= 4 THEN options
    ELSE [i \in 1..4 |-> IF i <= Len(options) THEN options[i] ELSE ""]

OrElse(v, fallback) == IF v = NoString THEN fallback ELSE v

(***************************************************************************)
(* normaliseReplacement of the validator client, applied to the            *)
(* replacement of a verdict when the validator's answer is read.           *)
(***************************************************************************)
normaliseReplacement(replacement) ==
    [replacement EXCEPT
        !.options = Def(Pad4(IF IsDef(@) THEN @[1] ELSE <<>>)),
        !.source_spans =
            IF IsDef(@) /\ Len(@[1]) > 0 THEN @
            ELSE IF IsDef(replacement.sources) /\ Len(replacement.sources[1]) > 0
            THEN replacement.sources
            ELSE Undefined]

(***************************************************************************)
(* normalizeReplacementMcq(replacement, fallback).                         *)
(***************************************************************************)
normalizeReplacementMcq(replacement, fallback) ==
    LET options == Pad4(IF IsDef(replacement.options)
                        THEN replacement.options[1] ELSE fallback.options)
        correctIndex ==
            IF IsDef(replacement.correct_index)
               /\ replacement.correct_index[1] >= 0
               /\ replacement.correct_index[1] <= 3
            THEN replacement.correct_index[1]
            ELSE fallback.correct_index
        normalizedSpans ==
            IF IsDef(replacement.source_spans) /\ Len(replacement.source_spans[1]) > 0
            THEN replacement.source_spans
            ELSE IF IsDef(replacement.sources) /\ Len(replacement.sources[1]) > 0
            THEN replacement.sources
            ELSE fallback.source_spans
    IN [bloom |-> OrElse(replacement.bloom, fallback.bloom),
        difficulty |-> OrElse(replacement.difficulty, fallback.difficulty),
        type |-> OrElse(replacement.type, fallback.type),
        stem |-> OrElse(replacement.stem, fallback.stem),
        options |-> options,
        correct_index |-> correctIndex,
        explanation |-> OrElse(replacement.explanation, fallback.explanation),
        source_spans |-> normalizedSpans]

(***************************************************************************)
(* The answer balancer.  Math.random makes shuffle and the tie-break       *)
(* nondeterministic: the operators return the set of possible results.     *)
(***************************************************************************)
\* shuffle(values): every permutation of the values.
shuffle_withRepeats(values) ==
    LET n == Len(values)
    IN {[i \in 1..n |-> values[p[i]]] : p \in [1..n -> 1..n]}
shuffle(values) ==
    LET n == Len(values)
        perms == {p \in [1..n -> 1..n] : \A i, j \in 1..n : p[i] = p[j] => i = j}
    IN {[i \in 1..n |-> values[p[i]]] : p \in perms}

MinOf(counts) ==
    CHOOSE m \in {counts[i] : i \in 1..Len(counts)} :
        \A i \in 1..Len(counts) : m <= counts[i]

\* Math.random() is an input: the value u stands for the draw u / RandomScale.
RandomScale == 12

\* The k-th (zero-based) element of a set of integers in ascending order.
RECURSIVE Nth(_, _)
Nth(S, k) ==
    LET least == CHOOSE x \in S : \A y \in S : x <= y
    IN IF k = 0 THEN least ELSE Nth(S \ {least}, k - 1)

\* selectBalancedIndex(correctCounts) under the draw u: the (zero-based)
\* index candidates[Math.floor(Math.random() * candidates.length)].
selectBalancedIndex_first(correctCounts, u) == 0
selectBalancedIndex(correctCounts, u) ==
    LET candidates ==
            {i - 1 : i \in {j \in 1..Len(correctCounts) :
                                correctCounts[j] = MinOf(correctCounts)}}
    IN Nth(candidates, (u * Cardinality(candidates)) \div RandomScale)

\* The body of the map callback of rebalanceCorrectOptions for one question.
rebalanceOne_optionsKept(mcq, correctCounts, draws) ==
    {[item |-> [mcq EXCEPT !.correct_index = d],
      counts |-> [correctCounts EXCEPT ![d + 1] = @ + 1]] :
        d \in {selectBalancedIndex(correctCounts, u) : u \in draws}}
rebalanceOne(mcq, correctCounts, draws) ==
    LET options == Pad4(mcq.options)
        originalIndex ==
            IF mcq.correct_index >= 0 /\ mcq.correct_index < Len(options)
            THEN mcq.correct_index ELSE 0
        correctOption == options[originalIndex + 1]
        otherOptions ==
            [i \in 1..(Len(options) - 1) |->
                IF i <= originalIndex THEN options[i] ELSE options[i + 1]]
        placed(shuffledOthers, desiredIndex) ==
            [i \in 1..4 |->
                IF i - 1 = desiredIndex THEN correctOption
                ELSE LET fillerPointer == IF i - 1 < desiredIndex THEN i ELSE i - 1
                     IN IF fillerPointer <= Len(shuffledOthers)
                        THEN shuffledOthers[fillerPointer] ELSE ""]
    IN {[item |-> [mcq EXCEPT !.options = placed(sh, d), !.correct_index = d],
         counts |-> [correctCounts EXCEPT ![d + 1] = @ + 1]] :
          sh \in shuffle(otherOptions),
          d \in {selectBalancedIndex(correctCounts, u) : u \in draws}}

RECURSIVE rebalanceCorrectOptions(_, _, _)
rebalanceCorrectOptions(mcqs, correctCounts, draws) ==
    IF mcqs = <<>>
    THEN {[items |-> <<>>, counts |-> correctCounts]}
    ELSE UNION {
           {[items |-> <<first.item>> \o rest.items, counts |-> rest.counts] :
               rest \in rebalanceCorrectOptions(Tail(mcqs), first.counts, draws)} :
           first \in rebalanceOne(Head(mcqs), correctCounts, draws)}

\* successfulTopics.forEach(...) of validateAndFinalizeJob: every topic is
\* balanced in order against the shared count vector.
RECURSIVE balanceTopics(_, _, _)
balanceTopics(topics, correctCounts, draws) ==
    IF topics = <<>>
    THEN {<<>>}
    ELSE UNION {
           {<<[topic |-> Head(topics).topic, items |-> first.items]>> \o rest :
               rest \in balanceTopics(Tail(topics), first.counts, draws)} :
           first \in rebalanceCorrectOptions(Head(topics).items, correctCounts, draws)}

(***************************************************************************)
(* toCsv, as the table of cells it renders (header row first).             *)
(***************************************************************************)
CsvRow(topic, item) ==
    LET paddedOptions ==
            [i \in 1..4 |-> IF i <= Len(item.options) THEN item.options[i] ELSE ""]
        correctIndex ==
            IF item.correct_index >= 0 /\ item.correct_index < Len(LETTERS)
            THEN item.correct_index ELSE 0
    IN <<topic, item.stem>> \o paddedOptions
         \o <<LETTERS[correctIndex + 1], item.explanation>>

RECURSIVE tableRows(_)
tableRows(topics) ==
    IF topics = <<>> THEN <<>>
    ELSE [i \in 1..Len(Head(topics).items) |->
             CsvRow(Head(topics).topic, Head(topics).items[i])]
         \o tableRows(Tail(topics))

toCsv_noHeader(topics) == tableRows(topics)
toCsv(topics) == <<CSV_HEADERS>> \o tableRows(topics)

(***************************************************************************)
(* persistChapterToDatabase: one transaction on the tables of the job's    *)
(* subject and class.  The chapter row is "absent" or "present"; topics is *)
(* the set of topic names (unique on subject, name, class); questions      *)
(* holds the question rows of each topic.  The statements run against a    *)
(* working copy that COMMIT installs and ROLLBACK discards.                *)
(***************************************************************************)
QuestionRow(item) ==
    LET optionsPadded == Pad4(item.options)
        correctLetter ==
            IF item.correct_index >= 0 /\ item.correct_index < Len(LETTERS)
            THEN LETTERS[item.correct_index + 1] ELSE LETTERS[1]
    IN [question_text |-> item.stem,
        option_a |-> optionsPadded[1], option_b |-> optionsPadded[2],
        option_c |-> optionsPadded[3], option_d |-> optionsPadded[4],
        correct_answer |-> correctLetter,
        explanation |-> item.explanation]

\* The statements of the loop body for one topic.
TopicStatements(topic) ==
    <<[op |-> "upsertTopic", topic |-> topic.topic],
      [op |-> "deleteQuestions", topic |-> topic.topic]>>
    \o [i \in 1..Len(topic.items) |->
           [op |-> "insertQuestion", topic |-> topic.topic,
            row |-> QuestionRow(topic.items[i])]]

RECURSIVE AllTopicStatements(_)
AllTopicStatements(topics) ==
    IF topics = <<>> THEN <<>>
    ELSE TopicStatements(Head(topics)) \o AllTopicStatements(Tail(topics))

\* The statements the function issues, in order, given the committed tables.
persistStatements(database, topics) ==
    <<[op |-> "begin"], [op |-> "selectChapter"]>>
    \o (IF database.chapter = "absent" THEN <<[op |-> "insertChapter"]>> ELSE <<>>)
    \o AllTopicStatements(topics)
    \o <<[op |-> "commit"]>>

ExecStatement_deleteUnfiltered(tables, stmt) ==
    CASE stmt.op = "insertChapter" -> [tables EXCEPT !.chapter = "present"]
      [] stmt.op = "upsertTopic" -> [tables EXCEPT !.topics = @ \cup {stmt.topic}]
      [] stmt.op = "deleteQuestions" ->
             [tables EXCEPT !.questions = [t \in DOMAIN @ |-> <<>>]]
      [] stmt.op = "insertQuestion" ->
             [tables EXCEPT !.questions[stmt.topic] = Append(@, stmt.row)]
      [] OTHER -> tables
ExecStatement(tables, stmt) ==
    CASE stmt.op = "insertChapter" -> [tables EXCEPT !.chapter = "present"]
      [] stmt.op = "upsertTopic" -> [tables EXCEPT !.topics = @ \cup {stmt.topic}]
      [] stmt.op = "deleteQuestions" -> [tables EXCEPT !.questions[stmt.topic] = <<>>]
      [] stmt.op = "insertQuestion" ->
             [tables EXCEPT !.questions[stmt.topic] = Append(@, stmt.row)]
      [] OTHER -> tables

RECURSIVE ExecAll(_, _)
ExecAll(tables, stmts) ==
    IF stmts = <<>> THEN tables
    ELSE ExecAll(ExecStatement(tables, Head(stmts)), Tail(stmts))

\* ROLLBACK: the committed tables stay, the working copy is dropped.
rollback_keepsWork(committed, working) == working
rollback(committed, working) == committed

\* The transaction when statement failAt fails (0: none does): the tables
\* afterwards and whether the function throws.
persistTransaction(database, topics, failAt) ==
    LET stmts == persistStatements(database, topics)
        ran == IF failAt = 0 THEN Len(stmts) ELSE failAt - 1
        working == ExecAll(database, SubSeq(stmts, 1, ran))
    IN IF failAt = 0
       THEN [db |-> working, threw |-> FALSE]
       ELSE [db |-> rollback(database, working), threw |-> TRUE]

persistChapterToDatabase(database, topics) ==
    persistTransaction(database, topics, 0).db

(***************************************************************************)
(* State.                                                                  *)
(*   jobStore    the process-wide job map: <<>> or <<record of the job>>   *)
(*   heap        the `items` arrays of topic buckets, by address           *)
(*   runs        the pipeline runs of the job: run 0 is processJob, runs   *)
(*               1.. are the retry calls in the order they were made       *)
(*   db          the question rows of the database                         *)
(*   retryCalls  retry runs started so far                                 *)
(*   genCalls    invocations of the generation call so far                 *)
(*   frame       the locals of a helper function that is being executed on *)
(*               its own, outside a pipeline run (NoFrame: none is)        *)
(***************************************************************************)
VARIABLES jobStore, heap, runs, db, retryCalls, genCalls, env, frame

vars == <<jobStore, heap, runs, db, retryCalls, genCalls, env, frame>>

RunIds == 0..(IF MaxRetryCalls > MaxRepeatCalls THEN MaxRetryCalls ELSE MaxRepeatCalls)
MaxTopicCount ==
    CHOOSE n \in {Len(t) : t \in TopicLists} : \A t \in TopicLists : Len(t) <= n

Ref(space, r, k) == [space |-> space, run |-> r, topic |-> k]
Refs ==
    {Ref(sp, 0, k) : sp \in {"gen", "snapshot"}, k \in 1..MaxTopicCount}
    \cup {Ref("run", r, k) : r \in RunIds, k \in 1..MaxTopicCount}

IdleRun ==
    [kind |-> "none", pc |-> "idle", gen |-> <<>>, attempt |-> 0,
     cur |-> <<>>, failed |-> <<>>, out |-> <<>>]

\* The record as a step finds it.  record.logs only grows; the model keeps in
\* `logs` the number of lines the step at hand appends.
Rec == [jobStore[1] EXCEPT !.logs = 0]
HasJob == jobStore # <<>>
Active(r) == runs[r].pc # "idle"
ActiveRuns == {r \in RunIds : Active(r)}

\* logJob, for n lines.
logJob(record, n) == [record EXCEPT !.logs = @ + n]

HasSnapshot(record) ==
    IsDef(record.generatedTopics) /\ Len(record.generatedTopics[1]) > 0

createJob(topics) ==
    [status |-> "pending",
     payload |-> [topics |-> topics],
     logs |-> 0,
     summary |-> Undefined,
     resultCsv |-> Undefined,
     outputFilename |-> NoString,
     error |-> NoString,
     openAiUsage |-> 0,
     anthropicUsage |-> 0,
     generatedTopics |-> Undefined,
     allowValidationRetry |-> FALSE,
     allowPersistenceRetry |-> FALSE]

NoFrame == [fn |-> "none"]

InitFrame(environment, locals) ==
    /\ frame = locals
    /\ jobStore = <<>>
    /\ heap = [ref \in Refs |-> <<>>]
    /\ runs = [r \in RunIds |-> IdleRun]
    /\ db = [chapter |-> "absent", topics |-> {},
             questions |-> [t \in TopicNames |-> <<>>]]
    /\ retryCalls = 0
    /\ genCalls = 0
    /\ env = environment

InitWith(environment) == InitFrame(environment, NoFrame)

Init == InitWith(OverlappingClients)
InitSeq == InitWith(SequentialClient)
InitRepeat == InitWith(RepeatingClient)
InitRelabel == InitWith(RelabellingValidator)

(***************************************************************************)
(* The catch blocks of the three entry points.                             *)
(***************************************************************************)
processJobCatch_alwaysRetryable(record, err, message) ==
    logJob([record EXCEPT
               !.status = "failed",
               !.error = message,
               !.allowValidationRetry = getErrorStatus(err) = Def(529),
               !.allowPersistenceRetry = TRUE], 3)
processJobCatch_statusKept(record, err, message) ==
    logJob([record EXCEPT
               !.error = message,
               !.allowValidationRetry = FALSE,
               !.allowPersistenceRetry = HasSnapshot(record)], 3)
processJobCatch_unhandled(record, err, message) ==
    record
processJobCatch(record, err, message) ==
    LET overloaded == getErrorStatus(err) = Def(529) /\ HasSnapshot(record)
        failed == [record EXCEPT
                     !.status = "failed",
                     !.error = message,
                     !.allowValidationRetry = overloaded,
                     !.allowPersistenceRetry =
                         IF overloaded THEN TRUE ELSE HasSnapshot(record)]
    IN logJob(failed, IF overloaded THEN 4 ELSE 3)

retryValidationCatch(record, err, message) ==
    LET overloaded == getErrorStatus(err) = Def(529) /\ HasSnapshot(record)
        failed == [record EXCEPT
                     !.status = "failed",
                     !.error = message,
                     !.allowValidationRetry = overloaded,
                     !.allowPersistenceRetry = FALSE]
    IN logJob(failed, IF overloaded THEN 2 ELSE 1)

retryPersistenceCatch(record, err, message) ==
    LET overloaded == getErrorStatus(err) = Def(529) /\ HasSnapshot(record)
        failed == [record EXCEPT
                     !.status = "failed",
                     !.error = message,
                     !.allowValidationRetry = overloaded,
                     !.allowPersistenceRetry =
                         IF overloaded THEN TRUE ELSE HasSnapshot(record)]
    IN logJob(failed, IF overloaded THEN 2 ELSE 1)

\* The catch block of the entry point a run was started by.
catchOf(kind, record, err, message) ==
    CASE kind = "processJob" -> processJobCatch(record, err, message)
      [] kind = "retryValidation" -> retryValidationCatch(record, err, message)
      [] kind = "retryPersistence" -> retryPersistenceCatch(record, err, message)

\* The arrays of a finished run are garbage.
Release(hp, r) ==
    [ref \in Refs |-> IF ref.space = "run" /\ ref.run = r THEN <<>> ELSE hp[ref]]

(***************************************************************************)
(* POST /api/mcqs: createJob stores the pending record; processJob then    *)
(* runs up to its first await.                                             *)
(***************************************************************************)
PostCreateJob ==
    /\ ~HasJob
    /\ \E topics \in env.topicLists : jobStore' = <<createJob(topics)>>
    /\ UNCHANGED <<heap, runs, db, retryCalls, genCalls, env, frame>>

\* processJob up to the first generation call.  getOpenAIClient returns null
\* when the API key is not configured.
ProcessJobStart ==
    /\ HasJob
    /\ Rec.status = "pending"
    /\ \E configured \in BOOLEAN :
        LET started == logJob([Rec EXCEPT !.status = "processing"], 2)
        IN IF configured
           THEN /\ jobStore' = <<[started EXCEPT
                                    !.generatedTopics = Undefined,
                                    !.allowValidationRetry = FALSE,
                                    !.allowPersistenceRetry = FALSE]>>
                /\ runs' = [runs EXCEPT ![0] =
                              [IdleRun EXCEPT !.kind = "processJob", !.pc = "generate"]]
           ELSE /\ jobStore' = <<processJobCatch(started, "nostatus",
                                    "OPENAI_API_KEY is not configured on the server.")>>
                /\ runs' = runs
    /\ UNCHANGED <<heap, db, retryCalls, genCalls, env, frame>>

(***************************************************************************)
(* validateAndFinalizeJob.                                                 *)
(***************************************************************************)
\* Entry: currentTopics is a clone of the argument, itself a clone of
\* record.generatedTopics made by the caller; then attempt 1 is submitted.
\* Yields <<record, heap, run>>.
startValidation(record, hp, r, kind) ==
    LET snap == record.generatedTopics[1]
        cur == [k \in 1..Len(snap) |->
                  [topic |-> snap[k].topic,
                   items |-> mappedArray(Ref("run", r, k),
                                 mappedArray(Ref("run", r, k), snap[k].items))]]
        hp2 == [ref \in Refs |->
                  IF ref.space = "run" /\ ref.run = r /\ ref.topic <= Len(snap)
                  THEN cloneItems(cloneItems(hp[snap[ref.topic].items]))
                  ELSE hp[ref]]
    IN <<logJob(record, 1),
         hp2,
         [IdleRun EXCEPT !.kind = kind, !.pc = "validate", !.attempt = 1, !.cur = cur]>>

VerdictKinds == {"approve", "replace", "reject"}

\* The verdict list of one topic: one verdict per question, in order.
Verdicts(kinds) ==
    [i \in 1..Len(kinds) |->
        [index |-> i - 1,
         verdict |-> IF kinds[i] = "approve" THEN "approve" ELSE "reject",
         replacementMcq |-> IF kinds[i] = "replace"
                            THEN Def(normaliseReplacement(ReplacementMcq))
                            ELSE Undefined]]

\* The payload of an attempt: currentTopics.map(...), every bucket with its
\* questions.
validationPayload(hp, cur) ==
    [k \in 1..Len(cur) |-> [topic |-> cur[k].topic, questions |-> hp[cur[k].items]]]

\* The validator's answers to a payload: per topic, in payload order.
ValidatorAnswers(hp, cur) ==
    LET payload == validationPayload(hp, cur)
    IN {a \in [1..Len(payload) ->
                  UNION {[1..n -> VerdictKinds] : n \in env.batchSizes}] :
          \A k \in 1..Len(payload) : Len(a[k]) = Len(payload[k].questions)}

\* The `topic` of each answer: parsed.topic ?? payload.topic, the name the
\* validator wrote in its JSON, or the payload's when it wrote none.
AnswerTopics(cur) ==
    {named \in [1..Len(cur) -> {cur[k].topic : k \in 1..Len(cur)} \cup env.relabels] :
        \A k \in 1..Len(cur) : named[k] = cur[k].topic \/ named[k] \in env.relabels}

HasReject(summary) ==
    \E i \in 1..Len(summary.verdicts) : summary.verdicts[i].verdict = "reject"

TopicsOf(summaries) == [k \in 1..Len(summaries) |-> summaries[k].topic]

\* topicSummary.verdicts.forEach of one topic: the items array after the
\* replacements, the names pushed on failedTopicSummaries and the number of
\* replacements applied.
RECURSIVE applyVerdicts(_, _, _)
applyVerdicts(items, topic, verdicts) ==
    IF verdicts = <<>>
    THEN [items |-> items, pushed |-> <<>>, replaced |-> 0]
    ELSE LET v == Head(verdicts)
         IN IF v.verdict = "reject" /\ ~IsDef(v.replacementMcq)
            THEN LET rest == applyVerdicts(items, topic, Tail(verdicts))
                 IN [rest EXCEPT !.pushed = <<topic>> \o @]
            ELSE IF v.verdict = "reject"
            THEN LET fallback == items[v.index + 1]
                     updated == [items EXCEPT ![v.index + 1] =
                                   normalizeReplacementMcq(v.replacementMcq[1], fallback)]
                     rest == applyVerdicts(updated, topic, Tail(verdicts))
                 IN [rest EXCEPT !.replaced = @ + 1]
            ELSE applyVerdicts(items, topic, Tail(verdicts))

\* validationSummary.topicSummaries.forEach over all topics, on the heap.
RECURSIVE applySummaries(_, _, _, _)
applySummaries_countsRejections(hp, cur, summaries, k) ==
    [heap |-> hp, pushed |-> <<>>, replaced |-> Len(SelectSeq(summaries, HasReject))]
applySummaries(hp, cur, summaries, k) ==
    IF k > Len(summaries)
    THEN [heap |-> hp, pushed |-> <<>>, replaced |-> 0]
    ELSE LET one == applyVerdicts(hp[cur[k].items], summaries[k].topic,
                                  summaries[k].verdicts)
             rest == applySummaries([hp EXCEPT ![cur[k].items] = one.items],
                                    cur, summaries, k + 1)
         IN [rest EXCEPT !.pushed = one.pushed \o @,
                         !.replaced = one.replaced + @]

IsFailedTopic(failed, topic) == \E i \in 1..Len(failed) : failed[i] = topic

\* successfulTopics: the buckets whose name is on no failed summary.
successfulTopics_unfiltered(cur, failed) == cur
successfulTopics(cur, failed) ==
    SelectSeq(cur, LAMBDA bucket : ~IsFailedTopic(failed, bucket.topic))

AllTopicsFailed == "All topics failed validation."

\* After the attempt loop: fail when no topic survives, otherwise hand the
\* survivors to the balancer and the persistence call.  The balancer's draws
\* are resolved in the step that first uses its result.
AfterAttempts(r, record, hp, failed) ==
    LET survivors == successfulTopics(runs[r].cur, failed)
    IN IF survivors = <<>>
       THEN /\ jobStore' = <<logJob([record EXCEPT
                                !.status = "failed",
                                !.summary = Def([overallStatus |-> "rejected",
                                                 topicSummaries |-> failed]),
                                !.error = AllTopicsFailed,
                                !.allowValidationRetry = FALSE], 1)>>
            /\ runs' = [runs EXCEPT ![r] = IdleRun]
            /\ heap' = Release(hp, r)
       ELSE /\ jobStore' = <<IF failed # <<>> THEN logJob(record, 1) ELSE record>>
            /\ runs' = [runs EXCEPT ![r] =
                 [@ EXCEPT !.pc = "persist", !.failed = failed,
                           !.out = [k \in 1..Len(survivors) |->
                                      [topic |-> survivors[k].topic,
                                       items |-> hp[survivors[k].items]]]]]
            /\ heap' = hp

\* record.anthropicUsage += anthUsage: one unit of usage per validated topic.
addAnthropicUsage_asOpenAi(record, n) == [record EXCEPT !.openAiUsage = @ + n]
addAnthropicUsage(record, n) == [record EXCEPT !.anthropicUsage = @ + n]

\* One attempt's verdicts have arrived.
ProcessVerdicts(r, record, answers, named) ==
    LET cur == runs[r].cur
        summaries == [k \in 1..Len(cur) |->
                        [topic |-> named[k], verdicts |-> Verdicts(answers[k])]]
        counted == logJob(addAnthropicUsage(record, Len(cur)), 1)
        rejectedTopics == SelectSeq(summaries, HasReject)
        applied == applySummaries(heap, cur, summaries, 1)
        failedAfter == runs[r].failed \o applied.pushed
    IN IF rejectedTopics = <<>>
       THEN AfterAttempts(r,
                logJob([counted EXCEPT !.summary =
                          Def([overallStatus |-> "approved",
                               topicSummaries |-> TopicsOf(summaries)])], 1),
                heap, <<>>)
       ELSE IF applied.replaced = 0
       THEN AfterAttempts(r, logJob(counted, 1), applied.heap,
                          failedAfter \o TopicsOf(rejectedTopics))
       ELSE IF runs[r].attempt < MAX_VALIDATION_ATTEMPTS
       THEN /\ jobStore' = <<logJob(counted, applied.replaced + 1)>>
            /\ heap' = applied.heap
            /\ runs' = [runs EXCEPT ![r] =
                          [@ EXCEPT !.attempt = @ + 1, !.failed = failedAfter]]
       ELSE AfterAttempts(r, logJob(counted, applied.replaced), applied.heap,
                          failedAfter)

\* The run's entry point catches what validateAndFinalizeJob throws.
RunFails(r, record, err, message) ==
    /\ jobStore' = <<catchOf(runs[r].kind, record, err, message)>>
    /\ runs' = [runs EXCEPT ![r] = IdleRun]
    /\ heap' = Release(heap, r)

\* The messages of the errors the validator and the generator throw.
ValidationFailed(err) == "Anthropic validation failed: " \o err
GenerationFailed(err) == "OpenAI generation failed: " \o err

\* retryWithBackoff(() => validateTopics(payload)) returns or throws.
ValidateStep(r) ==
    /\ runs[r].pc = "validate"
    /\ \E task \in TaskRuns :
        LET res == retryWithBackoff(task, PipelineMaxAttempts, 5000)
            logged == logJob(Rec, res.logs)
        IN IF res.result = "ok"
           THEN \E answers \in ValidatorAnswers(heap, runs[r].cur),
                   named \in AnswerTopics(runs[r].cur) :
                    ProcessVerdicts(r, logged, answers, named)
           ELSE RunFails(r, logged, res.result, ValidationFailed(res.result))
    /\ UNCHANGED <<db, retryCalls, genCalls, env, frame>>

(***************************************************************************)
(* processJob: one generation call per topic, in order; after the last one *)
(* the snapshot is stored and validation starts.                           *)
(***************************************************************************)
GenerateStep ==
    /\ runs[0].pc = "generate"
    /\ \E task \in TaskRuns, n \in env.batchSizes :
        LET res == retryWithBackoff(task, PipelineMaxAttempts, 5000)
            logged == logJob(Rec, res.logs)
            topics == Rec.payload.topics
            k == Len(runs[0].gen) + 1
        IN /\ genCalls' = genCalls + res.calls
           /\ IF res.result = "ok"
              THEN LET counted == [logJob(logged, 1) EXCEPT !.openAiUsage = @ + 1]
                       gen == Append(runs[0].gen,
                                     [topic |-> topics[k], items |-> Ref("gen", 0, k)])
                       hp == [heap EXCEPT ![Ref("gen", 0, k)] = cloneItems(GenBatch(k, n))]
                   IN IF k < Len(topics)
                      THEN /\ jobStore' = <<counted>>
                           /\ heap' = hp
                           /\ runs' = [runs EXCEPT ![0].gen = gen]
                      ELSE LET hp2 == [ref \in Refs |->
                                         IF ref.space = "snapshot" /\ ref.topic <= Len(gen)
                                         THEN cloneItems(hp[gen[ref.topic].items])
                                         ELSE hp[ref]]
                               stored == [counted EXCEPT
                                            !.generatedTopics =
                                                Def([j \in 1..Len(gen) |->
                                                       [topic |-> gen[j].topic,
                                                        items |-> mappedArray(
                                                            Ref("snapshot", 0, j),
                                                            gen[j].items)]]),
                                            !.allowValidationRetry = FALSE]
                               entered == startValidation(stored, hp2, 0, "processJob")
                           IN /\ jobStore' = <<entered[1]>>
                              /\ heap' = entered[2]
                              /\ runs' = [runs EXCEPT ![0] = entered[3]]
              ELSE /\ jobStore' = <<processJobCatch(logged, res.result,
                                        GenerationFailed(res.result))>>
                   /\ runs' = [runs EXCEPT ![0] = IdleRun]
                   /\ heap' = [ref \in Refs |-> <<>>]
    /\ UNCHANGED <<db, retryCalls, env, frame>>

(***************************************************************************)
(* The persistence call of a run: the transaction commits, or it fails,    *)
(* is rolled back and validateAndFinalizeJob catches the error.            *)
(***************************************************************************)
\* The survivors are balanced against one shared count vector, then written.
PersistCommit(r) ==
    /\ runs[r].pc = "persist"
    /\ \E balanced \in balanceTopics(runs[r].out, <<0, 0, 0, 0>>, env.draws) :
       /\ db' = persistChapterToDatabase(db, balanced)
       /\ runs' = [runs EXCEPT ![r].pc = "committed", ![r].out = balanced]
    /\ jobStore' = <<logJob(Rec, Len(runs[r].out) + 2)>>
    /\ UNCHANGED <<heap, retryCalls, genCalls, env, frame>>

PersistenceFailed == "Failed to persist MCQs to the database."

\* The catch block around the persistence call.
persistCatch_bothFlags(record) ==
    logJob([record EXCEPT
               !.status = "failed",
               !.error = PersistenceFailed,
               !.allowValidationRetry = HasSnapshot(record),
               !.allowPersistenceRetry = HasSnapshot(record)], 1)
persistCatch(record) ==
    logJob([record EXCEPT
               !.status = "failed",
               !.error = PersistenceFailed,
               !.allowValidationRetry = FALSE,
               !.allowPersistenceRetry = HasSnapshot(record)], 1)

PersistFail(r) ==
    /\ runs[r].pc = "persist"
    /\ \E balanced \in balanceTopics(runs[r].out, <<0, 0, 0, 0>>, env.draws) :
         \E failAt \in 1..Len(persistStatements(db, balanced)) :
             db' = persistTransaction(db, balanced, failAt).db
    /\ jobStore' = <<persistCatch(Rec)>>
    /\ runs' = [runs EXCEPT ![r] = IdleRun]
    /\ heap' = Release(heap, r)
    /\ UNCHANGED <<retryCalls, genCalls, env, frame>>

OutputFilename == "Class_Subject_Chapter_Syllabus.csv"

\* validateAndFinalizeJob after the persistence call has returned: the
\* record is finalized from the balanced topics and the failed summaries.
finalizeJob_statusKept(record, out, failed) ==
    logJob([record EXCEPT
               !.resultCsv = Def(toCsv(out)),
               !.summary =
                   Def([overallStatus |-> IF failed = <<>> THEN "approved" ELSE "mixed",
                        topicSummaries |-> failed]),
               !.outputFilename = OutputFilename,
               !.error = IF failed = <<>> THEN NoString
                         ELSE "One or more topics require manual review.",
               !.allowValidationRetry = FALSE,
               !.allowPersistenceRetry = FALSE], 3)
finalizeJob(record, out, failed) ==
    logJob([record EXCEPT
               !.resultCsv = Def(toCsv(out)),
               !.summary =
                   Def([overallStatus |-> IF failed = <<>> THEN "approved" ELSE "mixed",
                        topicSummaries |-> failed]),
               !.outputFilename = OutputFilename,
               !.status = "succeeded",
               !.error = IF failed = <<>> THEN NoString
                         ELSE "One or more topics require manual review.",
               !.allowValidationRetry = FALSE,
               !.allowPersistenceRetry = FALSE], 3)

FinalizeStep(r) ==
    /\ runs[r].pc = "committed"
    /\ jobStore' = <<finalizeJob(Rec, runs[r].out, runs[r].failed)>>
    /\ runs' = [runs EXCEPT ![r] = IdleRun]
    /\ heap' = Release(heap, r)
    /\ UNCHANGED <<db, retryCalls, genCalls, env, frame>>

(***************************************************************************)
(* POST /api/mcqs/retry-validation and POST /api/mcqs/retry-persist: the   *)
(* route answers 404 or 400, or calls the retry entry point, which runs up *)
(* to the first validator call.                                            *)
(***************************************************************************)
RetryRouteStatus_noSnapshotCheck(store) ==
    IF store = <<>> THEN 404
    ELSE 200
RetryRouteStatus(store) ==
    IF store = <<>> THEN 404
    ELSE IF ~HasSnapshot(store[1]) THEN 400
    ELSE 200

\* The message of the error a retry entry point throws without a snapshot.
NoSnapshotFor(kind) ==
    IF kind = "retryValidation"
    THEN "No generated MCQs available for validation retry."
    ELSE "No generated MCQs available for persistence retry."

RetryRejected ==
    /\ RetryRouteStatus(jobStore) # 200
    /\ UNCHANGED vars

RetryStart(kind) ==
    /\ RetryRouteStatus(jobStore) = 200
    /\ kind \in env.retryKinds
    /\ retryCalls < env.maxRetryCalls
    /\ Cardinality(ActiveRuns) < env.maxConcurrent
    /\ LET r == retryCalls + 1
           processing == logJob([Rec EXCEPT !.status = "processing"], 1)
       IN IF ~HasSnapshot(processing)
          THEN /\ jobStore' = <<catchOf(kind, processing, "nostatus",
                                        NoSnapshotFor(kind))>>
               /\ UNCHANGED <<heap, runs>>
          ELSE LET started == [processing EXCEPT
                                 !.allowValidationRetry = FALSE,
                                 !.allowPersistenceRetry = FALSE]
                   entered == startValidation(started, heap, r, kind)
               IN /\ jobStore' = <<entered[1]>>
                  /\ heap' = entered[2]
                  /\ runs' = [runs EXCEPT ![r] = entered[3]]
    /\ retryCalls' = retryCalls + 1
    /\ UNCHANGED <<db, genCalls, env, frame>>

retryValidation == RetryStart("retryValidation")
retryPersistence == RetryStart("retryPersistence")

(***************************************************************************)
(* GET /api/mcqs/status and GET /api/mcqs/result read the record.          *)
(***************************************************************************)
StatusRouteStatus(store) == IF store = <<>> THEN 404 ELSE 200

ResultRouteStatus_anyCsv(store) ==
    IF store = <<>> THEN 404
    ELSE IF ~IsDef(store[1].resultCsv) THEN 409
    ELSE 200
ResultRouteStatus(store) ==
    IF store = <<>> THEN 404
    ELSE IF store[1].status # "succeeded" \/ ~IsDef(store[1].resultCsv) THEN 409
    ELSE 200

\* The body of the result route's answer: the CSV, or an error object.
ResultRouteBody(store) ==
    IF ResultRouteStatus(store) = 200 THEN store[1].resultCsv[1]
    ELSE IF ResultRouteStatus(store) = 404 THEN <<"Job not found.">>
    ELSE <<"Job is not ready.">>

GetStatus == UNCHANGED vars
GetResult == UNCHANGED vars

Next ==
    \/ PostCreateJob
    \/ ProcessJobStart
    \/ GenerateStep
    \/ \E r \in RunIds : ValidateStep(r)
    \/ \E r \in RunIds : PersistCommit(r)
    \/ \E r \in RunIds : PersistFail(r)
    \/ \E r \in RunIds : FinalizeStep(r)
    \/ retryValidation
    \/ retryPersistence
    \/ RetryRejected
    \/ GetStatus
    \/ GetResult

Spec == Init /\ [][Next]_vars
SpecSeq == InitSeq /\ [][Next]_vars
SpecRepeat == InitRepeat /\ [][Next]_vars
SpecRelabel == InitRelabel /\ [][Next]_vars

(***************************************************************************)
(* The answer balancer on its own: validateAndFinalizeJob creates the      *)
(* count vector [0, 0, 0, 0] and hands it to rebalanceCorrectOptions for   *)
(* one surviving topic after the other; the map callback handles one       *)
(* question per step.  The questions come in every shape the generator or  *)
(* the validator may deliver: four options, fewer, more, and a correct     *)
(* index outside the options.                                              *)
(***************************************************************************)
\* Questions balanced in one run.
MaxBalanced == 6

BalancerItems ==
    {[GenItem(1, 1) EXCEPT !.options = shape.options, !.correct_index = shape.correct_index] :
        shape \in {[options |-> <<"c", "x", "y", "z">>, correct_index |-> 0],
                   [options |-> <<"x", "y", "c", "z">>, correct_index |-> 2],
                   [options |-> <<"c", "x">>, correct_index |-> 5],
                   [options |-> <<"x", "y", "z", "w", "c">>, correct_index |-> 4]}}

InitBalancer ==
    InitFrame(NoClient,
              [fn |-> "rebalanceCorrectOptions", bucket |-> 1, processed |-> 0,
               correctCounts |-> <<0, 0, 0, 0>>, before |-> <<0, 0, 0, 0>>,
               mcq |-> Undefined, result |-> Undefined])

\* One call of the map callback.
RebalanceItem ==
    /\ frame.fn = "rebalanceCorrectOptions"
    /\ frame.processed < MaxBalanced
    /\ \E mcq \in BalancerItems :
         \E res \in rebalanceOne(mcq, frame.correctCounts, env.draws) :
            frame' = [frame EXCEPT !.processed = @ + 1,
                                   !.before = frame.correctCounts,
                                   !.correctCounts = res.counts,
                                   !.mcq = Def(mcq),
                                   !.result = Def(res.item)]
    /\ UNCHANGED <<jobStore, heap, runs, db, retryCalls, genCalls, env>>

\* successfulTopics.forEach moves on to the next topic: the count vector stays.
NextBucket ==
    /\ frame.fn = "rebalanceCorrectOptions"
    /\ frame.bucket < MaxTopicCount
    /\ frame' = [frame EXCEPT !.bucket = @ + 1, !.mcq = Undefined, !.result = Undefined]
    /\ UNCHANGED <<jobStore, heap, runs, db, retryCalls, genCalls, env>>

NextBalancer == RebalanceItem \/ NextBucket

SpecBalancer == InitBalancer /\ [][NextBalancer]_vars

(***************************************************************************)
(* retryWithBackoff on its own: a caller hands it a task with maxAttempts  *)
(* and initialDelayMs (the defaults, or the values of the pipeline); each  *)
(* step is one invocation of the task, with any outcome, and what the      *)
(* executor does with it up to its next invocation or its end.             *)
(***************************************************************************)
InitBackoff ==
    \E maxAttempts \in 1..PipelineMaxAttempts, initialDelayMs \in {2000, 5000} :
        InitFrame(NoClient,
                  [fn |-> "retryWithBackoff", maxAttempts |-> maxAttempts,
                   initialDelayMs |-> initialDelayMs, history |-> <<>>,
                   res |-> retryWithBackoff(<<>>, maxAttempts, initialDelayMs)])

InvokeTask ==
    /\ frame.fn = "retryWithBackoff"
    /\ frame.res.result = "pending"
    /\ \E o \in TaskOutcomes :
         LET history == Append(frame.history, o)
         IN frame' = [frame EXCEPT
                        !.history = history,
                        !.res = retryWithBackoff(history, frame.maxAttempts,
                                                 frame.initialDelayMs)]
    /\ UNCHANGED <<jobStore, heap, runs, db, retryCalls, genCalls, env>>

NextBackoff == InvokeTask

SpecBackoff == InitBackoff /\ [][NextBackoff]_vars

(***************************************************************************)
(* One validation attempt of validateAndFinalizeJob on its own:            *)
(* retryWithBackoff runs validateTopics, which calls the validator once    *)
(* per topic and sums the usage of the responses in a local total; the     *)
(* caller adds the returned total to record.anthropicUsage.  `reported` is *)
(* the usage the validator has reported in its responses so far; an error  *)
(* response reports none.                                                  *)
(***************************************************************************)
InitValidateTopics ==
    \E topics \in 1..MaxTopicCount :
        InitFrame(NoClient,
                  [fn |-> "validateTopics", topics |-> topics, topic |-> 1,
                   attempt |-> 1, usageTotals |-> 0, reported |-> 0,
                   anthropicUsage |-> 0, pc |-> "calling", error |-> "none"])

\* callAnthropicValidatorForTopic for the next topic answers or throws.
CallValidatorForTopic ==
    /\ frame.fn = "validateTopics"
    /\ frame.pc = "calling"
    /\ \E o \in TaskOutcomes, usage \in {1, 2} :
         frame' =
            IF o = "ok"
            THEN [frame EXCEPT
                    !.usageTotals = @ + usage,
                    !.reported = @ + usage,
                    !.topic = @ + 1,
                    !.pc = IF frame.topic = frame.topics THEN "returned" ELSE "calling"]
            ELSE IF getErrorStatus(o) = Def(429) /\ frame.attempt < PipelineMaxAttempts
            THEN [frame EXCEPT !.attempt = @ + 1, !.topic = 1, !.usageTotals = 0]
            ELSE [frame EXCEPT !.pc = "threw", !.error = o]
    /\ UNCHANGED <<jobStore, heap, runs, db, retryCalls, genCalls, env>>

\* validateAndFinalizeJob adds the returned totals to the record.
AddValidatorUsage ==
    /\ frame.fn = "validateTopics"
    /\ frame.pc = "returned"
    /\ frame' = [frame EXCEPT !.anthropicUsage = @ + frame.usageTotals, !.pc = "added"]
    /\ UNCHANGED <<jobStore, heap, runs, db, retryCalls, genCalls, env>>

NextValidateTopics == CallValidatorForTopic \/ AddValidatorUsage

SpecValidateTopics == InitValidateTopics /\ [][NextValidateTopics]_vars

(***************************************************************************)
(* The replacement of one rejected question on its own: the validator's    *)
(* answer for a topic of two questions rejects one of them and offers a    *)
(* replacement, in any shape the validator's JSON may have; the verdict    *)
(* loop of validateAndFinalizeJob overwrites the question.                 *)
(***************************************************************************)
ReplacementSpan == [page |-> Def(7), text_snippet |-> "snip-repl"]

\* What the validator may send as replacement_mcq.
ReplacementShapes ==
    {[bloom |-> meta, difficulty |-> meta, type |-> meta,
      stem |-> "repl",
      options |-> options,
      correct_index |-> correctIndex,
      explanation |-> explanation,
      source_spans |-> spans,
      sources |-> sources] :
        meta \in {NoString, "given"},
        options \in {Undefined, Def(<<"p", "q">>), Def(<<"p", "q", "r", "s">>),
                     Def(<<"p", "q", "r", "s", "t">>)},
        correctIndex \in {Undefined, Def(2), Def(7)},
        explanation \in {NoString, "why-repl"},
        spans \in {Undefined, Def(<<>>), Def(<<ReplacementSpan>>)},
        sources \in {Undefined, Def(<<ReplacementSpan, ReplacementSpan>>)}}

InitReplacement ==
    \E raw \in ReplacementShapes, index \in {0, 1} :
        InitFrame(NoClient,
                  [fn |-> "normalizeReplacementMcq",
                   items |-> GenBatch(1, 2), index |-> index, raw |-> raw,
                   result |-> Undefined])

\* The verdict is read from the answer and applied to the topic's items.
ApplyReplacement ==
    /\ frame.fn = "normalizeReplacementMcq"
    /\ frame.result = Undefined
    /\ LET rejection == [index |-> frame.index, verdict |-> "reject",
                         replacementMcq |-> Def(normaliseReplacement(frame.raw))]
       IN frame' = [frame EXCEPT
                      !.result = Def(applyVerdicts(frame.items, "T1",
                                                   << rejection >>).items)]
    /\ UNCHANGED <<jobStore, heap, runs, db, retryCalls, genCalls, env>>

NextReplacement == ApplyReplacement

SpecReplacement == InitReplacement /\ [][NextReplacement]_vars

(***************************************************************************)
(* The CSV text.  A text is a sequence of characters; the header names and *)
(* the answer letter, words without quote, comma or newline, count as one  *)
(* character each.  toCsv quotes every cell, doubling the quotes in it,    *)
(* joins the cells of a row with commas and the rows with newlines;        *)
(* validateAndFinalizeJob puts the byte-order marker in front.  A reader   *)
(* of the file takes the text apart again, one character per step.         *)
(***************************************************************************)
DQ == "\""
COMMA == ","
LF == "\n"
BOM == "\\ufeff"
CsvChars == {"a", COMMA, DQ, LF}

\* Characters of a cell whose content is drawn freely.
MaxCellLen == 2
CellTexts == UNION {[1..n -> CsvChars] : n \in 0..MaxCellLen}

\* cell.replace(/"/g, '""')
RECURSIVE doubleQuotes(_)
doubleQuotes(cell) ==
    IF cell = <<>> THEN <<>>
    ELSE (IF Head(cell) = DQ THEN <<DQ, DQ>> ELSE <<Head(cell)>>)
         \o doubleQuotes(Tail(cell))

quoteCell_undoubled(cell) == <<DQ>> \o cell \o <<DQ>>
quoteCell(cell) == <<DQ>> \o doubleQuotes(cell) \o <<DQ>>

\* parts.join(sep)
RECURSIVE join(_, _)
join(parts, sep) ==
    IF parts = <<>> THEN <<>>
    ELSE IF Len(parts) = 1 THEN parts[1]
    ELSE parts[1] \o sep \o join(Tail(parts), sep)

\* The cells of toCsv's table as character sequences.
csvCells(topics) ==
    LET table == toCsv(topics)
    IN [r \in 1..Len(table) |->
          [i \in 1..Len(table[r]) |->
              IF r = 1 \/ i = 7 THEN <<table[r][i]>> ELSE table[r][i]]]

\* The string toCsv returns.
toCsvText(topics) ==
    LET cells == csvCells(topics)
    IN join([r \in 1..Len(cells) |->
                join([i \in 1..Len(cells[r]) |-> quoteCell(cells[r][i])], <<COMMA>>)],
            <<LF>>)

\* record.resultCsv
resultCsvText(topics) == <<BOM>> \o toCsvText(topics)

\* A balanced question with the given stem and first option.
CsvItem(stem, option, correctIndex) ==
    [GenItem(1, 1) EXCEPT !.stem = stem,
                          !.options = <<option, <<"a">>, <<>>, <<COMMA, "a">>>>,
                          !.correct_index = correctIndex,
                          !.explanation = <<"a", LF, DQ>>]

\* The balanced topics a succeeded run renders.
CsvTables ==
    {<<[topic |-> <<"a">>, items |-> <<CsvItem(stem, option, 0)>>]>> :
        stem \in CellTexts, option \in {<<>>, <<DQ>>, <<LF, COMMA>>, <<DQ, DQ>>}}
    \cup {<<[topic |-> <<COMMA>>,
             items |-> <<CsvItem(stem, <<"a">>, 3), CsvItem(<<DQ>>, <<LF>>, 1)>>],
            [topic |-> <<DQ, "a">>, items |-> <<CsvItem(<<>>, stem, 2)>>]>> :
        stem \in CellTexts}

\* The reader between cells, inside a quoted cell, after a quote inside a
\* quoted cell, or inside a bare cell; cell, row and rows are what it has
\* read so far.
readChar(st, c) ==
    LET endCell == [st EXCEPT !.mode = "start", !.cell = <<>>,
                              !.row = Append(st.row, st.cell)]
        endRow == [st EXCEPT !.mode = "start", !.cell = <<>>, !.row = <<>>,
                             !.rows = Append(st.rows, Append(st.row, st.cell))]
        separator == IF c = COMMA THEN endCell ELSE endRow
    IN CASE st.mode = "quoted" ->
                IF c = DQ THEN [st EXCEPT !.mode = "quoteSeen"]
                ELSE [st EXCEPT !.cell = Append(@, c)]
         [] st.mode = "quoteSeen" /\ c = DQ ->
                [st EXCEPT !.mode = "quoted", !.cell = Append(@, DQ)]
         [] st.mode = "start" /\ c = DQ -> [st EXCEPT !.mode = "quoted"]
         [] st.mode # "quoted" /\ c \in {COMMA, LF} -> separator
         [] OTHER -> [st EXCEPT !.mode = "bare", !.cell = Append(@, c)]

InitCsv ==
    \E topics \in CsvTables :
        InitFrame(NoClient,
                  [fn |-> "toCsv", table |-> topics, csv |-> Undefined, pos |-> 1,
                   parsed |-> Undefined,
                   reader |-> [mode |-> "start", cell |-> <<>>, row |-> <<>>,
                               rows |-> <<>>]])

\* validateAndFinalizeJob stores the text of the balanced topics.
WriteCsv ==
    /\ frame.fn = "toCsv"
    /\ frame.csv = Undefined
    /\ frame' = [frame EXCEPT !.csv = Def(resultCsvText(frame.table))]
    /\ UNCHANGED <<jobStore, heap, runs, db, retryCalls, genCalls, env>>

\* The reader skips the byte-order marker and reads one character.
ReadChar ==
    /\ frame.fn = "toCsv"
    /\ IsDef(frame.csv)
    /\ frame.pos <= Len(frame.csv[1])
    /\ LET c == frame.csv[1][frame.pos]
       IN frame' = [frame EXCEPT
                      !.pos = @ + 1,
                      !.reader = IF frame.pos = 1 /\ c = BOM THEN @ ELSE readChar(@, c)]
    /\ UNCHANGED <<jobStore, heap, runs, db, retryCalls, genCalls, env>>

\* The end of the text ends the last row.
ReadEnd ==
    /\ frame.fn = "toCsv"
    /\ IsDef(frame.csv)
    /\ frame.pos = Len(frame.csv[1]) + 1
    /\ frame.parsed = Undefined
    /\ frame' = [frame EXCEPT !.parsed = Def(readChar(frame.reader, LF).rows)]
    /\ UNCHANGED <<jobStore, heap, runs, db, retryCalls, genCalls, env>>

NextCsv == WriteCsv \/ ReadChar \/ ReadEnd

SpecCsv == InitCsv /\ [][NextCsv]_vars

(***************************************************************************)
(* The generation loop of processJob on its own.  The upstream call of     *)
(* generateMcqsForTopic throws, or answers with an output text: absent,    *)
(* blank (whitespace only, `padding` characters of it), or a document that *)
(* JSON.parse rejects or turns into a value.                               *)
(***************************************************************************)
MinMcqs == 10
MaxMcqs == 15

\* The lengths of the `mcqs` array an answer may carry.
McqCounts == {0, 1, MinMcqs - 1, MinMcqs, MinMcqs + 2, MaxMcqs, MaxMcqs + 1}

JsonValues ==
    {[isObject |-> FALSE, mcqsIsArray |-> FALSE, mcqs |-> <<>>],
     [isObject |-> TRUE, mcqsIsArray |-> FALSE, mcqs |-> <<>>]}
    \cup {[isObject |-> TRUE, mcqsIsArray |-> TRUE, mcqs |-> GenBatch(1, n)] :
            n \in McqCounts}

OutputTexts ==
    {[padding |-> p, body |-> Undefined] : p \in {0, 1}}
    \cup {[padding |-> 1, body |-> Def([wellFormed |-> FALSE, value |-> Undefined])]}
    \cup {[padding |-> 0, body |-> Def([wellFormed |-> TRUE, value |-> Def(v)])] :
            v \in JsonValues}

GenerationResponses ==
    {[error |-> e, output_text |-> Undefined] : e \in TaskOutcomes \ {"ok"}}
    \cup {[error |-> "none", output_text |-> Undefined]}
    \cup {[error |-> "none", output_text |-> Def(t)] : t \in OutputTexts}

\* String.prototype.trim, and the emptiness test of `!output`.
trim(text) == [text EXCEPT !.padding = 0]
IsEmptyText(text) == text.padding = 0 /\ text.body = Undefined

Thrown(err, message) ==
    [threw |-> TRUE, error |-> err, message |-> message, mcqs |-> <<>>]
Returned(mcqs) ==
    [threw |-> FALSE, error |-> "none", message |-> NoString, mcqs |-> mcqs]

\* What generateMcqsForTopic does with the parsed list.
checkMcqs_clamped(mcqs) ==
    IF Len(mcqs) = 0
    THEN Thrown("nostatus", "Model did not return any MCQs")
    ELSE IF Len(mcqs) < MinMcqs
    THEN Thrown("nostatus", "Provide between 10 and 15 items")
    ELSE Returned(SubSeq(mcqs, 1, IF Len(mcqs) > MaxMcqs THEN MaxMcqs ELSE Len(mcqs)))
checkMcqs(mcqs) ==
    IF Len(mcqs) = 0
    THEN Thrown("nostatus", "Model did not return any MCQs")
    ELSE IF Len(mcqs) < MinMcqs \/ Len(mcqs) > MaxMcqs
    THEN Thrown("nostatus", "Provide between 10 and 15 items")
    ELSE Returned(mcqs)

generateMcqsForTopic(response) ==
    IF response.error # "none"
    THEN Thrown(response.error, response.error)
    ELSE LET output == IF IsDef(response.output_text)
                       THEN Def(trim(response.output_text[1]))
                       ELSE Undefined
         IN IF ~IsDef(output) \/ IsEmptyText(output[1])
            THEN Thrown("nostatus", "OpenAI returned an empty MCQ payload")
            ELSE LET doc == output[1].body[1]
                 IN IF ~doc.wellFormed
                    THEN Thrown("nostatus", "Failed to parse MCQ JSON response")
                    ELSE LET parsed == doc.value[1]
                         IN IF ~parsed.isObject
                            THEN Thrown("nostatus", "TypeError")
                            ELSE IF ~parsed.mcqsIsArray
                            THEN Thrown("nostatus", "Model did not return any MCQs")
                            ELSE checkMcqs(parsed.mcqs)

\* The outcome the executor sees of one invocation.
InvocationOutcome(response) ==
    LET call == generateMcqsForTopic(response)
    IN IF call.threw THEN call.error ELSE "ok"

InitGenerate ==
    \E topics \in {<<"T1">>, <<"T1", "T2">>} :
        InitFrame(NoClient,
                  [fn |-> "processJob",
                   record |-> [createJob(topics) EXCEPT !.status = "processing"],
                   index |-> 1, responses |-> <<>>, response |-> Undefined,
                   generatedTopics |-> <<>>, pc |-> "generating"])

\* One invocation of generateMcqsForTopic by the executor, and what
\* processJob does with the executor's result: the next topic, the end of
\* the loop, or the catch block.
GenerationCall ==
    /\ frame.fn = "processJob"
    /\ frame.pc = "generating"
    /\ \E response \in GenerationResponses :
         LET responses == Append(frame.responses, response)
             outs == [i \in 1..Len(responses) |-> InvocationOutcome(responses[i])]
             res == retryWithBackoff(outs, PipelineMaxAttempts, 5000)
             call == generateMcqsForTopic(response)
             record == [frame.record EXCEPT !.logs = 0]
             topics == record.payload.topics
             invoked == [frame EXCEPT !.response = Def(response)]
         IN frame' =
              IF res.result = "pending"
              THEN [invoked EXCEPT !.responses = responses,
                                   !.record = logJob(record, 1)]
              ELSE IF res.result = "ok"
              THEN [invoked EXCEPT
                      !.responses = IF frame.index < Len(topics) THEN <<>> ELSE responses,
                      !.record = [logJob(record, 1) EXCEPT !.openAiUsage = @ + 1],
                      !.generatedTopics =
                          Append(@, [topic |-> topics[frame.index], items |-> call.mcqs]),
                      !.index = @ + 1,
                      !.pc = IF frame.index < Len(topics)
                             THEN "generating" ELSE "generated"]
              ELSE [invoked EXCEPT
                      !.responses = responses,
                      !.record = processJobCatch(record, res.result, call.message),
                      !.pc = "failed"]
    /\ UNCHANGED <<jobStore, heap, runs, db, retryCalls, genCalls, env>>

NextGenerate == GenerationCall

SpecGenerate == InitGenerate /\ [][NextGenerate]_vars

(***************************************************************************)
(* The chapter and topic statements of persistChapterToDatabase, one       *)
(* statement per step, for the transactions of runs that persist the same  *)
(* chapter and topic.  The tables are those of the job's subject and       *)
(* class.  A row of `chapters` carries the transaction that inserted it    *)
(* while that transaction is open (insertedBy, 0 once committed); updates  *)
(* of an open transaction are kept with the transaction.  A statement sees *)
(* what is committed when it runs and what its own transaction wrote; a    *)
(* write to a row waits while another open transaction has written it.     *)
(***************************************************************************)
MaxTransactions == 2

normalizedChapterTitle == "Title"
chapterLogLabel == "Chapter 1: Title"
normalizedSyllabus == "S1"

Transactions == 1..MaxTransactions

ChapterRow(id, name, syllabus) ==
    [id |-> id, chapter_name |-> name, syllabus |-> syllabus, insertedBy |-> 0]

\* What the table may hold for the subject and class before the runs: no
\* row, a row under the plain title, one under the legacy label, or both.
ChapterTables ==
    {{}}
    \cup {{ChapterRow(1, name, syllabus)} :
            name \in {normalizedChapterTitle, chapterLogLabel},
            syllabus \in {Undefined, Def("S0"), Def(normalizedSyllabus)}}
    \cup {{ChapterRow(1, normalizedChapterTitle, Def(normalizedSyllabus)),
           ChapterRow(2, chapterLogLabel, Def("S0"))}}

NoTransaction ==
    [pc |-> "idle", existingChapter |-> Undefined, chapterId |-> 0,
     renamed |-> {}, resyllabused |-> {}, topicWritten |-> FALSE]

IsOpen(tx) == tx.pc \notin {"idle", "committed", "rolledback"}

\* The rows of `chapters` a statement of transaction t sees.
VisibleChapters(t) ==
    {[id |-> row.id,
      chapter_name |-> IF row.id \in frame.tx[t].renamed
                       THEN normalizedChapterTitle ELSE row.chapter_name,
      syllabus |-> IF row.id \in frame.tx[t].resyllabused
                   THEN Def(normalizedSyllabus) ELSE row.syllabus] :
        row \in {r \in frame.chapters : r.insertedBy \in {0, t}}}

\* Another open transaction has written chapter row id.
ChapterRowLocked(t, id) ==
    \E u \in Transactions \ {t} :
        /\ IsOpen(frame.tx[u])
        /\ id \in frame.tx[u].renamed \cup frame.tx[u].resyllabused

InitChapter ==
    \E chapters \in ChapterTables, topicChapter \in {0, 1} :
        /\ topicChapter = 0 \/ \E row \in chapters : row.id = topicChapter
        /\ InitFrame(NoClient,
                     [fn |-> "persistChapterToDatabase",
                      chapters |-> chapters,
                      nextId |-> Cardinality(chapters) + 1,
                      topicChapter |-> topicChapter,
                      tx |-> [t \in Transactions |-> NoTransaction]])

InChapterTx(t, pc) ==
    /\ frame.fn = "persistChapterToDatabase"
    /\ frame.tx[t].pc = pc

\* BEGIN
TxBegin(t) ==
    /\ InChapterTx(t, "idle")
    /\ frame' = [frame EXCEPT !.tx[t].pc = "selectPlain"]
    /\ UNCHANGED <<jobStore, heap, runs, db, retryCalls, genCalls, env>>

\* SELECT ... WHERE chapter_name = normalizedChapterTitle
TxSelectPlain(t) ==
    /\ InChapterTx(t, "selectPlain")
    /\ LET found == {r \in VisibleChapters(t) : r.chapter_name = normalizedChapterTitle}
       IN IF found = {}
          THEN frame' = [frame EXCEPT !.tx[t].pc = "selectLegacy"]
          ELSE \E first \in found :
                 frame' = [frame EXCEPT !.tx[t].pc = "useExisting",
                                        !.tx[t].existingChapter = Def(first)]
    /\ UNCHANGED <<jobStore, heap, runs, db, retryCalls, genCalls, env>>

\* SELECT ... WHERE chapter_name = chapterLogLabel
TxSelectLegacy(t) ==
    /\ InChapterTx(t, "selectLegacy")
    /\ LET found == {r \in VisibleChapters(t) : r.chapter_name = chapterLogLabel}
       IN IF found = {}
          THEN frame' = [frame EXCEPT !.tx[t].pc = "insertChapter"]
          ELSE \E first \in found :
                 frame' = [frame EXCEPT !.tx[t].pc = "migrate",
                                        !.tx[t].existingChapter = Def(first)]
    /\ UNCHANGED <<jobStore, heap, runs, db, retryCalls, genCalls, env>>

\* UPDATE chapters SET chapter_name = normalizedChapterTitle WHERE id = legacyId
TxMigrate(t) ==
    /\ InChapterTx(t, "migrate")
    /\ LET legacyId == frame.tx[t].existingChapter[1].id
       IN /\ ~ChapterRowLocked(t, legacyId)
          /\ frame' = [frame EXCEPT
                         !.tx[t].pc = "useExisting",
                         !.tx[t].renamed =
                             IF \E r \in frame.chapters : r.id = legacyId /\ r.insertedBy \in {0, t}
                             THEN @ \cup {legacyId} ELSE @]
    /\ UNCHANGED <<jobStore, heap, runs, db, retryCalls, genCalls, env>>

\* chapterId = existingChapter.rows[0].id, and the syllabus is updated when
\* the one that was read differs from the incoming one.
TxUseExisting(t) ==
    /\ InChapterTx(t, "useExisting")
    /\ LET existing == frame.tx[t].existingChapter[1]
           differs == existing.syllabus # Def(normalizedSyllabus)
       IN /\ differs => ~ChapterRowLocked(t, existing.id)
          /\ frame' = [frame EXCEPT
                         !.tx[t].pc = "upsertTopic",
                         !.tx[t].chapterId = existing.id,
                         !.tx[t].resyllabused =
                             IF differs /\ \E r \in frame.chapters :
                                              r.id = existing.id /\ r.insertedBy \in {0, t}
                             THEN @ \cup {existing.id} ELSE @]
    /\ UNCHANGED <<jobStore, heap, runs, db, retryCalls, genCalls, env>>

\* INSERT INTO chapters ... RETURNING id
TxInsertChapter(t) ==
    /\ InChapterTx(t, "insertChapter")
    /\ frame' = [frame EXCEPT
                   !.tx[t].pc = "upsertTopic",
                   !.tx[t].chapterId = frame.nextId,
                   !.nextId = @ + 1,
                   !.chapters = @ \cup
                       {[ChapterRow(frame.nextId, normalizedChapterTitle,
                                    Def(normalizedSyllabus)) EXCEPT !.insertedBy = t]}]
    /\ UNCHANGED <<jobStore, heap, runs, db, retryCalls, genCalls, env>>

\* INSERT INTO topics ... ON CONFLICT (subject_id, name, class) DO UPDATE
\* SET chapter_id, and the statements on the topic's questions.
TxUpsertTopic(t) ==
    /\ InChapterTx(t, "upsertTopic")
    /\ ~\E u \in Transactions \ {t} : IsOpen(frame.tx[u]) /\ frame.tx[u].topicWritten
    /\ frame' = [frame EXCEPT !.tx[t].pc = "commit", !.tx[t].topicWritten = TRUE]
    /\ UNCHANGED <<jobStore, heap, runs, db, retryCalls, genCalls, env>>

\* COMMIT
TxCommit(t) ==
    /\ InChapterTx(t, "commit")
    /\ frame' = [frame EXCEPT
                   !.tx[t].pc = "committed",
                   !.topicChapter = frame.tx[t].chapterId,
                   !.chapters =
                       {[id |-> r.id,
                         chapter_name |-> IF r.id \in frame.tx[t].renamed
                                          THEN normalizedChapterTitle ELSE r.chapter_name,
                         syllabus |-> IF r.id \in frame.tx[t].resyllabused
                                      THEN Def(normalizedSyllabus) ELSE r.syllabus,
                         insertedBy |-> IF r.insertedBy = t THEN 0 ELSE r.insertedBy] :
                           r \in frame.chapters}]
    /\ UNCHANGED <<jobStore, heap, runs, db, retryCalls, genCalls, env>>

\* A statement fails: ROLLBACK, and the error is thrown.
TxRollback(t) ==
    /\ frame.fn = "persistChapterToDatabase"
    /\ IsOpen(frame.tx[t])
    /\ frame' = [frame EXCEPT
                   !.tx[t] = [NoTransaction EXCEPT !.pc = "rolledback"],
                   !.chapters = {r \in @ : r.insertedBy # t}]
    /\ UNCHANGED <<jobStore, heap, runs, db, retryCalls, genCalls, env>>

NextChapter ==
    \E t \in Transactions :
        \/ TxBegin(t)
        \/ TxSelectPlain(t)
        \/ TxSelectLegacy(t)
        \/ TxMigrate(t)
        \/ TxUseExisting(t)
        \/ TxInsertChapter(t)
        \/ TxUpsertTopic(t)
        \/ TxCommit(t)
        \/ TxRollback(t)

SpecChapter == InitChapter /\ [][NextChapter]_vars

(***************************************************************************)
(* The control flow of one run of an entry point, one external call per    *)
(* step: each generation call, each submission of the batch to the         *)
(* validator and the persistence call return with any outcome.  `calls`    *)
(* holds the outcomes of the invocations the executor at hand has made so  *)
(* far; the counters tell how often the run has called out.                *)
(***************************************************************************)
EntryPoints == {"processJob", "retryValidation", "retryPersistence"}

\* What an answered attempt's verdicts amount to in the attempt loop: no
\* rejection; rejections of which at least one came with a replacement;
\* rejections without any replacement.
AttemptOutcomes == {"approved", "replacedAny", "noReplacement"}

InitRun ==
    \E kind \in EntryPoints, topics \in 1..MaxTopicCount :
        InitFrame(NoClient,
                  [fn |-> "run", kind |-> kind, topics |-> topics,
                   status |-> "processing", pc |-> "start",
                   topic |-> 1, attempt |-> 1, calls |-> <<>>,
                   generations |-> [k \in 1..MaxTopicCount |-> 0],
                   submissions |-> 0, transactions |-> 0])

\* The catch block of the entry point, and the returns of
\* validateAndFinalizeJob that leave the job failed.
RunFailed(locals) == [locals EXCEPT !.status = "failed", !.pc = "ended", !.calls = <<>>]

\* The attempt loop goes on to another submission of the batch.
anotherAttempt_unbounded(outcome, attempt) == outcome = "replacedAny"
anotherAttempt(outcome, attempt) ==
    outcome = "replacedAny" /\ attempt < MAX_VALIDATION_ATTEMPTS

\* The entry point up to its first external call: processJob needs the
\* OpenAI client, the retry entry points need the snapshot.
RunStart ==
    /\ frame.fn = "run"
    /\ frame.pc = "start"
    /\ \E ready \in BOOLEAN :
         frame' = IF ~ready THEN RunFailed(frame)
                  ELSE [frame EXCEPT !.pc = IF frame.kind = "processJob"
                                           THEN "generate" ELSE "validate"]
    /\ UNCHANGED <<jobStore, heap, runs, db, retryCalls, genCalls, env>>

\* One invocation of generateMcqsForTopic by the executor.
GenerationReturns ==
    /\ frame.fn = "run"
    /\ frame.pc = "generate"
    /\ \E o \in TaskOutcomes :
         LET calls == Append(frame.calls, o)
             res == retryWithBackoff(calls, PipelineMaxAttempts, 5000)
             counted == [frame EXCEPT !.generations[frame.topic] = @ + 1]
         IN frame' =
              IF res.result = "pending" THEN [counted EXCEPT !.calls = calls]
              ELSE IF res.result # "ok" THEN RunFailed(counted)
              ELSE IF frame.topic < frame.topics
              THEN [counted EXCEPT !.calls = <<>>, !.topic = @ + 1]
              ELSE [counted EXCEPT !.calls = <<>>, !.pc = "validate"]
    /\ UNCHANGED <<jobStore, heap, runs, db, retryCalls, genCalls, env>>

\* One invocation of validateTopics(payload) by the executor, and the rest
\* of the attempt when it answers.
ValidatorReturns ==
    /\ frame.fn = "run"
    /\ frame.pc = "validate"
    /\ \E o \in TaskOutcomes, outcome \in AttemptOutcomes, survivors \in BOOLEAN :
         LET calls == Append(frame.calls, o)
             res == retryWithBackoff(calls, PipelineMaxAttempts, 5000)
             counted == [frame EXCEPT !.submissions = @ + 1]
         IN /\ outcome = "approved" => survivors
            /\ frame' =
                 IF res.result = "pending" THEN [counted EXCEPT !.calls = calls]
                 ELSE IF res.result # "ok" THEN RunFailed(counted)
                 ELSE IF anotherAttempt(outcome, frame.attempt)
                 THEN [counted EXCEPT !.calls = <<>>, !.attempt = @ + 1]
                 ELSE IF ~survivors THEN RunFailed(counted)
                 ELSE [counted EXCEPT !.calls = <<>>, !.pc = "persist"]
    /\ UNCHANGED <<jobStore, heap, runs, db, retryCalls, genCalls, env>>

\* persistChapterToDatabase returns or throws.
PersistenceReturns ==
    /\ frame.fn = "run"
    /\ frame.pc = "persist"
    /\ \E committed \in BOOLEAN :
         LET counted == [frame EXCEPT !.transactions = @ + 1]
         IN frame' = IF committed
                     THEN [counted EXCEPT !.status = "succeeded", !.pc = "ended"]
                     ELSE RunFailed(counted)
    /\ UNCHANGED <<jobStore, heap, runs, db, retryCalls, genCalls, env>>

NextRun == RunStart \/ GenerationReturns \/ ValidatorReturns \/ PersistenceReturns

SpecRun == InitRun /\ [][NextRun]_vars

\* Every external call returns or fails, and the continuation that awaits it
\* is then run.
SpecRunLive == SpecRun /\ WF_vars(NextRun)

(***************************************************************************)
(* Vocabulary of the properties.                                           *)
(***************************************************************************)
StatusOf(store) == IF store = <<>> THEN "none" ELSE store[1].status

\* The run r ends in the step; the step is the start of a retry call.
RunEnds(r) == Active(r) /\ runs'[r].pc = "idle"
RetryCallStarts(kind) ==
    /\ retryCalls' = retryCalls + 1
    /\ runs'[retryCalls'].kind = kind
RetryRuns == RunIds \ {0}

\* The topics and questions record.generatedTopics holds.
SnapshotContents(store, hp) ==
    IF store = <<>> \/ ~IsDef(store[1].generatedTopics)
    THEN <<>>
    ELSE LET snap == store[1].generatedTopics[1]
         IN [k \in 1..Len(snap) |->
               [topic |-> snap[k].topic, items |-> hp[snap[k].items]]]

\* The topics and questions a run is validating.
RunContents(run, hp) ==
    [k \in 1..Len(run.cur) |->
        [topic |-> run.cur[k].topic, items |-> hp[run.cur[k].items]]]

\* The step leaves the snapshot as it is: the same arrays, holding the same.
SnapshotKept ==
    /\ jobStore'[1].generatedTopics = jobStore[1].generatedTopics
    /\ SnapshotContents(jobStore', heap') = SnapshotContents(jobStore, heap)

(***************************************************************************)
(* Job status and retry admission.                                         *)
(***************************************************************************)
\* The status changes the state machine admits.  processJob passes through
\* "processing" before its first suspension, also when it fails there.
StatusChanges ==
    {<<"none", "pending">>, <<"pending", "processing">>, <<"pending", "failed">>,
     <<"processing", "succeeded">>, <<"processing", "failed">>,
     <<"failed", "processing">>}

\* C1: the status of a job changes only along pending -> processing,
\* processing -> succeeded, processing -> failed and failed -> processing, the
\* last only as the first step of a retry call; never succeeded -> processing
\* and never directly between succeeded and failed.
C1_StatusTransitions ==
    [][StatusOf(jobStore') # StatusOf(jobStore) =>
          /\ <<StatusOf(jobStore), StatusOf(jobStore')>> \in StatusChanges
          /\ StatusOf(jobStore) = "failed" =>
                 \E kind \in {"retryValidation", "retryPersistence"} :
                     RetryCallStarts(kind)]_vars

\* C2: a persistence-retry call starts a run only when a non-empty snapshot
\* exists and allowPersistenceRetry is true; in every other state of the job
\* it starts none.
C2_PersistenceRetryAdmission ==
    [][RetryCallStarts("retryPersistence") =>
          HasSnapshot(jobStore[1]) /\ jobStore[1].allowPersistenceRetry]_vars

\* C3: at any time at most one pipeline run (processJob, retryValidation or
\* retryPersistence) is in progress for the job.
C3_SingleRun == Cardinality(ActiveRuns) <= 1

(***************************************************************************)
(* The snapshot.                                                           *)
(***************************************************************************)
\* C4: once stored, record.generatedTopics holds the generation output and
\* never changes, whatever validation attempts, replacements, balancing
\* passes and retries follow; every run starts validation on arrays of its
\* own whose contents equal the snapshot.
C4_SnapshotImmutable ==
    /\ [](HasJob /\ IsDef(jobStore[1].generatedTopics) =>
             LET snap == SnapshotContents(jobStore, heap)
                 topics == jobStore[1].payload.topics
             IN /\ Len(snap) = Len(topics)
                /\ \A k \in 1..Len(snap) :
                      /\ snap[k].topic = topics[k]
                      /\ snap[k].items = GenBatch(k, Len(snap[k].items)))
    /\ [][HasJob /\ IsDef(jobStore[1].generatedTopics) => SnapshotKept]_vars
    /\ [][\A r \in RunIds :
             runs[r].pc # "validate" /\ runs'[r].pc = "validate" =>
                 /\ RunContents(runs'[r], heap') = SnapshotContents(jobStore', heap')
                 /\ \A k \in 1..Len(runs'[r].cur) :
                       runs'[r].cur[k].items # jobStore'[1].generatedTopics[1][k].items]_vars

\* A retry run has replaced a question of its copy.
C4_Witness ==
    \E r \in RetryRuns :
        /\ runs[r].pc = "validate"
        /\ runs[r].attempt = 2
        /\ RunContents(runs[r], heap) # SnapshotContents(jobStore, heap)

\* C5: retryValidation and retryPersistence never invoke the generation
\* call: no step of a retry run changes the number of generation calls,
\* record.openAiUsage or record.generatedTopics.
C5_RetriesNeverGenerate ==
    [][(\E r \in RetryRuns : runs'[r] # runs[r]) =>
          /\ genCalls' = genCalls
          /\ jobStore'[1].openAiUsage = jobStore[1].openAiUsage
          /\ SnapshotKept]_vars

\* A retry run has validated, persisted and finalized the job.
C5_Witness ==
    /\ retryCalls > 0
    /\ ActiveRuns = {}
    /\ StatusOf(jobStore) = "succeeded"
    /\ genCalls > 0
    /\ jobStore[1].anthropicUsage > Len(jobStore[1].payload.topics)

(***************************************************************************)
(* The retry flags after a failure.                                        *)
(***************************************************************************)
\* C6: when a run of any entry point fails with HTTP 529 while a non-empty
\* snapshot exists, the job ends failed with allowValidationRetry and
\* allowPersistenceRetry both true, and the snapshot is preserved.
C6_OverloadUnlocksBothRetries ==
    [][\A r \in RunIds :
          /\ RunEnds(r)
          /\ runs[r].pc = "validate"
          /\ HasSnapshot(jobStore[1])
          /\ jobStore'[1].error = ValidationFailed("529")
          => /\ jobStore'[1].status = "failed"
             /\ jobStore'[1].allowValidationRetry
             /\ jobStore'[1].allowPersistenceRetry
             /\ SnapshotKept]_vars

\* C7: when a run fails for a reason that is neither a 529 overload nor a
\* persistence error, the job ends failed with allowValidationRetry and
\* allowPersistenceRetry both false, in every entry point.
C7_OtherFailuresLockBothRetries ==
    [][/\ StatusOf(jobStore') = "failed"
       /\ StatusOf(jobStore) = "pending" \/ \E r \in RunIds : RunEnds(r)
       /\ jobStore'[1].error \notin {PersistenceFailed, ValidationFailed("529")}
       => /\ ~jobStore'[1].allowValidationRetry
          /\ ~jobStore'[1].allowPersistenceRetry]_vars

\* C8: when the persistence transaction fails in a run, the job ends failed
\* with allowPersistenceRetry true (the snapshot being non-empty) and
\* allowValidationRetry false, the snapshot and the database are unchanged,
\* and the run has written no result CSV and no output filename: those are
\* written only by the step that finalizes a committed run.
C8_PersistenceFailure ==
    /\ [][\A r \in RunIds :
             runs[r].pc = "persist" /\ RunEnds(r) =>
                 /\ jobStore'[1].status = "failed"
                 /\ HasSnapshot(jobStore[1]) => jobStore'[1].allowPersistenceRetry
                 /\ ~jobStore'[1].allowValidationRetry
                 /\ SnapshotKept
                 /\ db' = db
                 /\ jobStore'[1].resultCsv = jobStore[1].resultCsv
                 /\ jobStore'[1].outputFilename = jobStore[1].outputFilename]_vars
    /\ [][/\ HasJob
          /\ \/ jobStore'[1].resultCsv # jobStore[1].resultCsv
             \/ jobStore'[1].outputFilename # jobStore[1].outputFilename
          => \E r \in RunIds : runs[r].pc = "committed" /\ RunEnds(r)]_vars

\* A run has just failed at persistence.
C8_Witness ==
    /\ StatusOf(jobStore) = "failed"
    /\ jobStore[1].error = PersistenceFailed
    /\ jobStore[1].allowPersistenceRetry
    /\ ~jobStore[1].allowValidationRetry
    /\ ~IsDef(jobStore[1].resultCsv)

\* C9: after a run has failed at persistence, the persistence retry is
\* admitted, and a persistence-retry run ends with status succeeded, the
\* result CSV and the output filename stored and both retry flags false,
\* unless the validator fails or rejects every topic or the database raises
\* an error.
C9_PersistenceRetrySucceeds ==
    /\ [](StatusOf(jobStore) = "failed" /\ jobStore[1].error = PersistenceFailed =>
             RetryRouteStatus(jobStore) = 200 /\ jobStore[1].allowPersistenceRetry)
    /\ [][\A r \in RetryRuns :
             /\ runs[r].kind = "retryPersistence"
             /\ jobStore[1].error = PersistenceFailed
             /\ RunEnds(r)
             => \/ /\ runs[r].pc = "validate"
                   /\ jobStore'[1].status = "failed"
                   /\ jobStore'[1].error \in
                         {AllTopicsFailed} \cup {ValidationFailed(o) : o \in TaskOutcomes}
                \/ /\ runs[r].pc = "persist"
                   /\ jobStore'[1].status = "failed"
                   /\ jobStore'[1].error = PersistenceFailed
                \/ /\ runs[r].pc = "committed"
                   /\ jobStore'[1].status = "succeeded"
                   /\ jobStore'[1].resultCsv = Def(toCsv(runs[r].out))
                   /\ jobStore'[1].outputFilename = OutputFilename
                   /\ ~jobStore'[1].allowValidationRetry
                   /\ ~jobStore'[1].allowPersistenceRetry]_vars

\* A persistence retry made after a persistence failure has been approved by
\* the validator and has committed its rows.
C9_Witness ==
    \E r \in RetryRuns :
        /\ runs[r].kind = "retryPersistence"
        /\ runs[r].pc = "committed"
        /\ runs[r].failed = <<>>
        /\ jobStore[1].error = PersistenceFailed

(***************************************************************************)
(* Excluded topics.                                                        *)
(***************************************************************************)
\* C10: a topic for which the validator returned, in any attempt of a run, a
\* reject verdict without replacement is not among the topics the run
\* renders as CSV and persists, whatever later attempts return.  (The failed
\* list before the step holds the topics so rejected in earlier attempts, the
\* one after it those of the last attempt.)
C10_RejectedTopicsExcluded ==
    [][\A r \in RunIds :
          runs[r].pc = "validate" /\ runs'[r].pc = "persist" =>
              \A k \in 1..Len(runs'[r].out) :
                  /\ ~IsFailedTopic(runs[r].failed, runs'[r].out[k].topic)
                  /\ ~IsFailedTopic(runs'[r].failed, runs'[r].out[k].topic)]_vars

(***************************************************************************)
(* Outcomes of a run.                                                      *)
(***************************************************************************)
ValidatorErrors == {ValidationFailed(o) : o \in TaskOutcomes}

\* C11: when every topic ends up excluded by validation, the run ends with
\* status failed and error "All topics failed validation.", starts no
\* persistence transaction and writes no result CSV; a run goes on to
\* persistence only with at least one topic, none of them on the failed list.
C11_AllTopicsExcluded ==
    [][\A r \in RunIds :
          runs[r].pc = "validate" =>
              /\ (RunEnds(r) /\ jobStore'[1].error \notin ValidatorErrors) =>
                    /\ jobStore'[1].status = "failed"
                    /\ jobStore'[1].error = AllTopicsFailed
                    /\ \A k \in 1..Len(runs[r].cur) :
                          IsFailedTopic(jobStore'[1].summary[1].topicSummaries,
                                        runs[r].cur[k].topic)
                    /\ db' = db
                    /\ jobStore'[1].resultCsv = jobStore[1].resultCsv
                    /\ jobStore'[1].outputFilename = jobStore[1].outputFilename
              /\ runs'[r].pc = "persist" =>
                    /\ runs'[r].out # <<>>
                    /\ \A k \in 1..Len(runs'[r].out) :
                          ~IsFailedTopic(runs'[r].failed, runs'[r].out[k].topic)]_vars

\* Both topics of a payload have been excluded and the job has failed.
C11_Witness ==
    /\ StatusOf(jobStore) = "failed"
    /\ jobStore[1].error = AllTopicsFailed
    /\ Len(jobStore[1].payload.topics) = 2
    /\ ActiveRuns = {}
    /\ ~IsDef(jobStore[1].resultCsv)
    /\ \A t \in TopicNames : db.questions[t] = <<>>

(***************************************************************************)
(* What the artifact holds.                                                *)
(***************************************************************************)
\* How often each text occurs among the options.
OptionBag(options) ==
    [x \in {options[i] : i \in 1..Len(options)} |->
        Cardinality({i \in 1..Len(options) : options[i] = x})]

\* The question is a replacement supplied by the validator.
IsReplacement(item) == item.stem = ReplacementMcq.stem

\* Number of data rows that precede the rows of the k-th topic.
RECURSIVE RowOffset(_, _)
RowOffset(topics, k) ==
    IF k <= 1 THEN 0 ELSE RowOffset(topics, k - 1) + Len(topics[k - 1].items)

\* The run r is on attempt 2 and the validator has approved every question
\* of it: the approving summary of the run's topics is stored and no topic
\* is on the failed list.
ApprovedOnSecondAttempt(r) ==
    /\ runs[r].attempt = 2
    /\ runs[r].failed = <<>>
    /\ jobStore[1].summary =
           Def([overallStatus |-> "approved",
                topicSummaries |-> [k \in 1..Len(runs[r].cur) |-> runs[r].cur[k].topic]])

\* C12: when attempt 1 rejects question i of a topic with a replacement and
\* attempt 2 approves every question, the persisted row and the CSV row at
\* position i of that topic carry the replacement's stem, explanation and
\* option texts (in any order), not the original question's.
C12_ReplacementInArtifact ==
    [][\A r \in RunIds :
          ApprovedOnSecondAttempt(r) =>
              \A k \in 1..Len(runs[r].cur) :
                  \A i \in 1..Len(heap[runs[r].cur[k].items]) :
                      IsReplacement(heap[runs[r].cur[k].items][i]) =>
                          /\ (runs[r].pc = "persist" /\ runs'[r].pc = "committed") =>
                                LET rows == db'.questions[runs[r].cur[k].topic]
                                IN /\ i <= Len(rows)
                                   /\ rows[i].question_text = ReplacementMcq.stem
                                   /\ rows[i].explanation = ReplacementMcq.explanation
                                   /\ OptionBag(<<rows[i].option_a, rows[i].option_b,
                                                  rows[i].option_c, rows[i].option_d>>)
                                          = OptionBag(ReplacementMcq.options[1])
                          /\ (runs[r].pc = "committed" /\ RunEnds(r)) =>
                                LET csv == jobStore'[1].resultCsv[1]
                                    row == csv[1 + RowOffset(runs[r].out, k) + i]
                                IN /\ row[1] = runs[r].cur[k].topic
                                   /\ row[2] = ReplacementMcq.stem
                                   /\ row[8] = ReplacementMcq.explanation
                                   /\ OptionBag(SubSeq(row, 3, 6))
                                          = OptionBag(ReplacementMcq.options[1])]_vars

\* Zero-based position of a letter among LETTERS.
LetterIndex(letter) == CHOOSE j \in 0..(Len(LETTERS) - 1) : LETTERS[j + 1] = letter

\* The CSV row renders the question: topic, stem, the option texts in some
\* order, the letter of the correct option's column and the explanation.
RendersItem(row, topic, item) ==
    /\ Len(row) = Len(CSV_HEADERS)
    /\ row[1] = topic
    /\ row[2] = item.stem
    /\ OptionBag(SubSeq(row, 3, 6)) = OptionBag(item.options)
    /\ row[7] \in {LETTERS[j] : j \in 1..Len(LETTERS)}
    /\ row[3 + LetterIndex(row[7])] = item.options[item.correct_index + 1]
    /\ row[8] = item.explanation

C14_ArtifactMatchesStatus ==
    /\ StatusOf(jobStore) = "succeeded" =>
           IsDef(jobStore[1].resultCsv) /\ jobStore[1].outputFilename # NoString
    /\ StatusOf(jobStore) = "failed" => ~IsDef(jobStore[1].resultCsv)

(***************************************************************************)
(* The routes.                                                             *)
(***************************************************************************)
\* C15: the job-result operation answers 404 for an unknown id, 409 in every
\* status other than succeeded, also when a CSV of an earlier successful run
\* is still stored, and the CSV only when the status is succeeded.
C15_ResultOnlyWhenSucceeded ==
    /\ ~HasJob => ResultRouteStatus(jobStore) = 404
    /\ (HasJob /\ jobStore[1].status # "succeeded") =>
           /\ ResultRouteStatus(jobStore) = 409
           /\ ResultRouteBody(jobStore) = <<"Job is not ready.">>
    /\ (HasJob /\ jobStore[1].status = "succeeded") =>
           /\ ResultRouteStatus(jobStore) = 200
           /\ ResultRouteBody(jobStore) = jobStore[1].resultCsv[1]
           /\ ResultRouteBody(jobStore)[1] = CSV_HEADERS

\* A job that is not succeeded still holds the CSV of an earlier success,
\* and the result route answers 409.
C15_Witness ==
    /\ HasJob
    /\ jobStore[1].status \in {"processing", "failed"}
    /\ IsDef(jobStore[1].resultCsv)
    /\ ResultRouteStatus(jobStore) = 409

\* C16: a retry request answers 404 for an unknown job id and 400 for a job
\* without snapshot or with an empty one; in both cases no retry call is made
\* and no run is started, so the request leaves the record as it is.
C16_RetryRequestRejected ==
    /\ [](~HasJob => RetryRouteStatus(jobStore) = 404)
    /\ []((HasJob /\ ~HasSnapshot(jobStore[1])) => RetryRouteStatus(jobStore) = 400)
    /\ [][(~HasJob \/ ~HasSnapshot(jobStore[1])) =>
             /\ retryCalls' = retryCalls
             /\ \A r \in RetryRuns : runs'[r] = runs[r]]_vars

\* A job has failed at generation: it has no snapshot and a retry request
\* is answered 400.
C16_Witness ==
    /\ StatusOf(jobStore) = "failed"
    /\ ~HasSnapshot(jobStore[1])
    /\ jobStore[1].openAiUsage > 0
    /\ RetryRouteStatus(jobStore) = 400

C18_PersistenceAtomic ==
    /\ [](\A r \in RunIds :
            runs[r].pc = "persist" =>
               \A balanced \in balanceTopics(runs[r].out, <<0, 0, 0, 0>>, env.draws) :
                  \A failAt \in 1..Len(persistStatements(db, balanced)) :
                     persistTransaction(db, balanced, failAt)
                         = [db |-> db, threw |-> TRUE])
    /\ [][\A r \in RunIds :
            runs[r].pc = "persist" =>
               /\ runs'[r].pc = "committed" =>
                     /\ db'.chapter = "present"
                     /\ \A k \in DOMAIN runs'[r].out :
                            runs'[r].out[k].topic \in db'.topics
                     /\ db' = ExecAll(db, persistStatements(db, runs'[r].out))
               /\ RunEnds(r) =>
                     /\ db' = db
                     /\ StatusOf(jobStore') = "failed"
                     /\ jobStore'[1].error = PersistenceFailed]_vars

\* A persistence attempt has failed on a database that holds the rows of an
\* earlier committed attempt.
C18_Witness ==
    /\ StatusOf(jobStore) = "failed"
    /\ jobStore[1].error = PersistenceFailed
    /\ db.chapter = "present"
    /\ \E t \in TopicNames : db.questions[t] # <<>>

\* The rows of every item supplied to a persistence run under a topic name,
\* in the order supplied.
RECURSIVE SuppliedRows(_, _)
SuppliedRows(topics, name) ==
    IF topics = <<>> THEN <<>>
    ELSE (IF Head(topics).topic = name
          THEN [i \in 1..Len(Head(topics).items) |-> QuestionRow(Head(topics).items[i])]
          ELSE <<>>)
         \o SuppliedRows(Tail(topics), name)

\* C19: after a committed persistence run the question rows of each
\* persisted topic are exactly the rows of the items newly supplied for that
\* topic: no earlier row remains and there is one row per supplied item.
C19_FullReplacePerTopic ==
    [][\A r \in RunIds :
          (runs[r].pc = "persist" /\ runs'[r].pc = "committed") =>
              \A k \in DOMAIN runs'[r].out :
                  db'.questions[runs'[r].out[k].topic]
                      = SuppliedRows(runs'[r].out, runs'[r].out[k].topic)]_vars

\* The question texts of the rows of a topic, in row order.
QuestionTexts(rows) == [k \in DOMAIN rows |-> rows[k].question_text]

\* C20: when a client invokes the persistence retry twice in a row on the
\* same snapshot and both calls persist the same questions, the question
\* rows of every topic after the second call's commit (text, four options,
\* correct-answer letter, explanation) are those the first call left.
C20_PersistenceRetryIdempotent ==
    [][\A r \in RunIds :
          (/\ env.retryKinds = {"retryPersistence"}
           /\ r >= 2
           /\ runs[r].pc = "persist" /\ runs'[r].pc = "committed"
           /\ jobStore[1].error = NoString
           /\ \A t \in TopicNames :
                 QuestionTexts(db'.questions[t]) = QuestionTexts(db.questions[t]))
          => db'.questions = db.questions]_vars

\* C21: for N questions passed through the balancer in one run, with the
\* count vector starting at [0, 0, 0, 0] and shared by the run's topics, no
\* letter's correct-answer count exceeds ceil(N / 4) + 1, whatever the
\* shuffles and tie-breaks are.
C21_BalancerBound ==
    frame.fn = "rebalanceCorrectOptions" =>
        \A i \in 1..4 : frame.correctCounts[i] <= ((frame.processed + 3) \div 4) + 1

\* Five questions of a run's second topic have been balanced and a letter
\* has been chosen twice.
C21_Witness ==
    /\ frame.fn = "rebalanceCorrectOptions"
    /\ frame.bucket = 2
    /\ frame.processed = 5
    /\ \E i \in 1..4 : frame.correctCounts[i] = 2

\* C22: every question has exactly 4 options and a correct index in
\* {0, 1, 2, 3} after balancing, also when it arrived with fewer or more than
\* 4 options or with a correct index outside them; the CSV row and the
\* question row written from it carry these 4 options and the letter of that
\* index.
C22_FourOptionsAfterBalancing ==
    (frame.fn = "rebalanceCorrectOptions" /\ IsDef(frame.result)) =>
        LET item == frame.result[1]
            csv == CsvRow("T1", item)
            row == QuestionRow(item)
        IN /\ Len(item.options) = 4
           /\ item.correct_index \in 0..3
           /\ SubSeq(csv, 3, 6) = item.options
           /\ csv[7] = LETTERS[item.correct_index + 1]
           /\ <<row.option_a, row.option_b, row.option_c, row.option_d>> = item.options
           /\ row.correct_answer = LETTERS[item.correct_index + 1]

\* A question that arrived with two options and the correct index 5 has
\* been balanced.
C22_Witness ==
    /\ frame.fn = "rebalanceCorrectOptions"
    /\ IsDef(frame.mcq) /\ IsDef(frame.result)
    /\ Len(frame.mcq[1].options) = 2
    /\ frame.mcq[1].correct_index = 5

\* The elements of a sequence other than the one at (zero-based) index k.
Others(seq, k) == [i \in 1..(Len(seq) - 1) |-> IF i <= k THEN seq[i] ELSE seq[i + 1]]

IsPermutationOf(a, b) ==
    /\ Len(a) = Len(b)
    /\ \E p \in [1..Len(a) -> 1..Len(a)] :
          /\ \A i, j \in 1..Len(a) : p[i] = p[j] => i = j
          /\ \A i \in 1..Len(a) : a[i] = b[p[i]]

\* C29: for a question that arrives with 4 options and a valid correct
\* index, the option at the new correct index is the original correct text,
\* the other three positions hold a permutation of the original three
\* distractors, the chosen letter had the minimum count just before the
\* placement, and exactly that letter's count grows, by 1.
C29_BalancedPlacement ==
    (/\ frame.fn = "rebalanceCorrectOptions"
     /\ IsDef(frame.mcq) /\ IsDef(frame.result)
     /\ Len(frame.mcq[1].options) = 4
     /\ frame.mcq[1].correct_index \in 0..3) =>
        LET old == frame.mcq[1]
            new == frame.result[1]
            d == new.correct_index
        IN /\ new.options[d + 1] = old.options[old.correct_index + 1]
           /\ IsPermutationOf(Others(new.options, d),
                              Others(old.options, old.correct_index))
           /\ \A i \in 1..4 : frame.before[d + 1] <= frame.before[i]
           /\ \A i \in 1..4 :
                 frame.correctCounts[i] = frame.before[i] + (IF i = d + 1 THEN 1 ELSE 0)

\* A question whose correct option was third has been placed on letter D
\* when A, B and C had been used once more than D, its distractors reordered.
C29_Witness ==
    /\ frame.fn = "rebalanceCorrectOptions"
    /\ IsDef(frame.mcq) /\ IsDef(frame.result)
    /\ frame.mcq[1].options = <<"x", "y", "c", "z">>
    /\ frame.before = <<1, 1, 1, 0>>
    /\ frame.result[1].options = <<"z", "y", "x", "c">>

\* The items of the topics in order, each with its topic.
RECURSIVE TableEntries(_)
TableEntries(topics) ==
    IF topics = <<>> THEN <<>>
    ELSE [i \in 1..Len(Head(topics).items) |->
             [topic |-> Head(topics).topic, item |-> Head(topics).items[i]]]
         \o TableEntries(Tail(topics))

\* C23: reading back the CSV text of a succeeded job, after the byte-order
\* marker, gives the header row and then, for every surviving topic and
\* item in order, a row whose Topic, Question_text, Option A..D,
\* Correct_Answer letter and Explanation equal the balanced item, also when
\* cells contain commas, quotes or newlines.
C23_CsvRoundTrip ==
    (frame.fn = "toCsv" /\ IsDef(frame.parsed)) =>
        LET rows == frame.parsed[1]
            entries == TableEntries(frame.table)
        IN /\ Len(rows) = Len(entries) + 1
           /\ rows[1] = [i \in 1..8 |-> <<CSV_HEADERS[i]>>]
           /\ \A k \in 1..Len(entries) :
                 LET row == rows[k + 1]
                     item == entries[k].item
                 IN /\ Len(row) = 8
                    /\ row[1] = entries[k].topic
                    /\ row[2] = item.stem
                    /\ SubSeq(row, 3, 6) = item.options
                    /\ row[7] = <<LETTERS[item.correct_index + 1]>>
                    /\ row[8] = item.explanation

\* The text of two topics whose first question has a quote and a newline
\* in its stem has been read back.
C23_Witness ==
    /\ frame.fn = "toCsv"
    /\ IsDef(frame.parsed)
    /\ Len(frame.table) = 2
    /\ frame.table[1].items[1].stem = <<DQ, LF>>

\* C24: retryWithBackoff invokes the operation again only after a failure
\* with status 429 while attempts remain, invokes it at most maxAttempts
\* times, and emits exactly one log line before each wait: k consecutive 429
\* failures followed by a success, k < maxAttempts, give k log lines, k waits
\* and the successful result (with which the caller goes on); any other
\* failure, and a 429 on the last attempt, is thrown to the caller.
C24_BackoffBounded ==
    /\ [](frame.fn = "retryWithBackoff" =>
            LET history == frame.history
                res == frame.res
                n == Len(history)
            IN /\ res.calls = n
               /\ n <= frame.maxAttempts
               /\ res.logs = Len(res.waits)
               /\ \A i \in 1..(n - 1) : history[i] = "429"
               /\ n > 0 =>
                    /\ history[n] = "ok" =>
                          (res.result = "ok" /\ res.logs = n - 1)
                    /\ (history[n] = "429" /\ n < frame.maxAttempts) =>
                          (res.result = "pending" /\ res.logs = n)
                    /\ (history[n] \notin {"ok", "429"} \/ n = frame.maxAttempts) =>
                          (res.result = history[n] /\ res.logs = n - 1))
    /\ [][(frame.fn = "retryWithBackoff" /\ frame'.history # frame.history) =>
             /\ frame'.res.logs \in {frame.res.logs, frame.res.logs + 1}
             /\ frame.history # <<>> =>
                   /\ frame.history[Len(frame.history)] = "429"
                   /\ Len(frame.history) < frame.maxAttempts]_vars

\* The generation call of the pipeline (6 attempts) has failed with 429
\* three times in a row and then succeeded.
C24_Witness ==
    /\ frame.fn = "retryWithBackoff"
    /\ frame.maxAttempts = PipelineMaxAttempts
    /\ frame.history = <<"429", "429", "429", "ok">>
    /\ frame.res.result = "ok"
    /\ frame.res.logs = 3
    /\ Len(frame.res.waits) = 3

\* C25: the usage reported by every validator call made for the job is added
\* to record.anthropicUsage however the attempt ends, also for the calls of
\* a submission in which a later topic's call fails.
C25_ValidatorUsageCounted ==
    (frame.fn = "validateTopics" /\ frame.pc \in {"added", "threw"}) =>
        frame.anthropicUsage = frame.reported

\* The step overwrites a question of run r by a replacement.
ReplacementApplied(r) ==
    \E k \in DOMAIN runs[r].cur :
        LET ref == runs[r].cur[k].items
        IN \E i \in DOMAIN heap[ref] :
              /\ i \in DOMAIN heap'[ref]
              /\ heap'[ref][i] # heap[ref][i]
              /\ IsReplacement(heap'[ref][i])

\* C26: within one run the validator is given the batch in at most 2
\* attempts (re-invocations after a 429 not counted), and the second attempt
\* is made only when attempt 1 had a rejection for which a replacement was
\* applied.
C26_AtMostTwoAttempts ==
    /\ [](\A r \in RunIds : runs[r].attempt <= 2)
    /\ [][\A r \in RunIds :
            /\ (runs[r].pc = "validate" /\ runs'[r] # runs[r] /\ runs'[r].pc = "validate") =>
                  /\ runs[r].attempt = 1
                  /\ runs'[r].attempt = 2
                  /\ ReplacementApplied(r)
            /\ (runs[r].pc = "validate" /\ runs[r].attempt = 2 /\ jobStore' # jobStore) =>
                  runs'[r].pc # "validate"]_vars

\* A run is waiting for the verdicts of its second attempt after a
\* replacement was applied in the first.
C26_Witness ==
    \E r \in RunIds :
        /\ runs[r].pc = "validate"
        /\ runs[r].attempt = 2
        /\ \E k \in DOMAIN runs[r].cur :
              \E i \in DOMAIN heap[runs[r].cur[k].items] :
                  IsReplacement(heap[runs[r].cur[k].items][i])

\* C27: a topic marked failed in attempt 1 (a rejection without replacement)
\* is removed from further attempts: the payload submitted in attempt 2
\* holds no topic that is on the failed list.
C27_FailedTopicsNotResubmitted ==
    \A r \in RunIds :
        (runs[r].pc = "validate" /\ runs[r].attempt = 2) =>
            LET payload == validationPayload(heap, runs[r].cur)
            IN \A k \in DOMAIN payload : ~IsFailedTopic(runs[r].failed, payload[k].topic)

\* C28: after a rejected question is overwritten by its replacement, the
\* item at that index has exactly 4 options and a correct index in 0..3,
\* carries every field the replacement supplies and keeps from the replaced
\* item every field the replacement omits (bloom, difficulty, type, and the
\* source citations when the replacement has none); the other items of the
\* topic are unchanged.
C28_ReplacementOverwrite ==
    (frame.fn = "normalizeReplacementMcq" /\ IsDef(frame.result)) =>
        LET old == frame.items[frame.index + 1]
            new == frame.result[1][frame.index + 1]
            raw == frame.raw
            noSpans == ~IsDef(raw.source_spans) \/ raw.source_spans[1] = <<>>
            noSources == ~IsDef(raw.sources) \/ raw.sources[1] = <<>>
        IN /\ Len(frame.result[1]) = Len(frame.items)
           /\ \A j \in DOMAIN frame.items :
                 j # frame.index + 1 => frame.result[1][j] = frame.items[j]
           /\ Len(new.options) = 4
           /\ new.correct_index \in 0..3
           /\ new.stem = IF raw.stem = NoString THEN old.stem ELSE raw.stem
           /\ new.bloom = IF raw.bloom = NoString THEN old.bloom ELSE raw.bloom
           /\ new.difficulty =
                 IF raw.difficulty = NoString THEN old.difficulty ELSE raw.difficulty
           /\ new.type = IF raw.type = NoString THEN old.type ELSE raw.type
           /\ new.explanation =
                 IF raw.explanation = NoString THEN old.explanation ELSE raw.explanation
           /\ ~IsDef(raw.options) => new.options = old.options
           /\ (IsDef(raw.options) /\ Len(raw.options[1]) = 4) =>
                 new.options = raw.options[1]
           /\ ~IsDef(raw.correct_index) => new.correct_index = old.correct_index
           /\ (IsDef(raw.correct_index) /\ raw.correct_index[1] \in 0..3) =>
                 new.correct_index = raw.correct_index[1]
           /\ new.source_spans =
                 IF ~noSpans THEN raw.source_spans
                 ELSE IF ~noSources THEN raw.sources
                 ELSE old.source_spans

\* The answer of a generation call carries no usable list: no output text or
\* a blank one, a text that is not JSON, no `mcqs` array, or an array of
\* fewer than 10 or more than 15 items (the empty one included).
UnusablePayload(response) ==
    /\ response.error = "none"
    /\ \/ ~IsDef(response.output_text)
       \/ response.output_text[1].body = Undefined
       \/ ~response.output_text[1].body[1].wellFormed
       \/ LET value == response.output_text[1].body[1].value[1]
          IN \/ ~value.isObject
             \/ ~value.mcqsIsArray
             \/ Len(value.mcqs) < 10
             \/ Len(value.mcqs) > 15

\* C30: when a generation call answers with empty output, malformed JSON, an
\* empty list or a list of fewer than 10 or more than 15 items, the step
\* fails at that invocation, whatever attempt of the executor it is: the
\* executor does not invoke the call again, no list (cut or not) is taken
\* for the topic, and the job is failed with the error and without a
\* snapshot or a retry permission.  A usable list is taken whole.
C30_ParseFailuresFailJob ==
    /\ [](frame.fn = "processJob" /\ frame.pc = "failed" => ~ENABLED GenerationCall)
    /\ [][frame.fn = "processJob" /\ frame' # frame =>
            LET response == frame'.response[1]
            IN /\ UnusablePayload(response) =>
                    /\ frame'.pc = "failed"
                    /\ frame'.responses = Append(frame.responses, response)
                    /\ frame'.generatedTopics = frame.generatedTopics
                    /\ frame'.record.status = "failed"
                    /\ frame'.record.error # NoString
                    /\ frame'.record.generatedTopics = Undefined
                    /\ ~frame'.record.allowValidationRetry
                    /\ ~frame'.record.allowPersistenceRetry
               /\ (response.error = "none" /\ ~UnusablePayload(response)) =>
                    /\ frame'.pc # "failed"
                    /\ frame'.generatedTopics =
                         Append(frame.generatedTopics,
                                [topic |-> frame.record.payload.topics[frame.index],
                                 items |-> response.output_text[1].body[1].value[1].mcqs])]_vars

\* The second topic's call is rate limited once and then answers with 16
\* items: the job has failed after that second invocation.
C30_Witness ==
    /\ frame.fn = "processJob"
    /\ frame.pc = "failed"
    /\ frame.index = 2
    /\ Len(frame.responses) = 2
    /\ frame.responses[1].error = "429"
    /\ UnusablePayload(frame.responses[2])
    /\ IsDef(frame.responses[2].output_text)
    /\ IsDef(frame.responses[2].output_text[1].body)
    /\ frame.responses[2].output_text[1].body[1].wellFormed
    /\ Len(frame.responses[2].output_text[1].body[1].value[1].mcqs) = 16
    /\ frame.record.status = "failed"

\* C31: an invocation that fails with a status other than 429 (or with no
\* status) ends retryWithBackoff at once with that invocation's error: no
\* log line, no wait, no further invocation; and when the maxAttempts-th
\* invocation fails with 429 the executor ends with that invocation's 429
\* error, never with the generic "exhausted all retry attempts" error.
C31_OtherFailuresPropagate ==
    /\ [](frame.fn = "retryWithBackoff" /\ frame.res.result # "pending" =>
            /\ ~ENABLED InvokeTask
            /\ frame.res.result # "exhausted")
    /\ [][(frame.fn = "retryWithBackoff" /\ frame'.history # frame.history) =>
            LET n == Len(frame'.history)
                o == frame'.history[n]
                propagated == /\ frame'.res.result = o
                              /\ frame'.res.thrownAt = n
                              /\ frame'.res.calls = n
                              /\ frame'.res.logs = frame.res.logs
                              /\ frame'.res.waits = frame.res.waits
            IN /\ o \notin {"ok", "429"} => propagated
               /\ (o = "429" /\ n = frame.maxAttempts) => propagated]_vars

\* A call without status fails the second invocation, after one 429.
C31_Witness ==
    /\ frame.fn = "retryWithBackoff"
    /\ frame.history = <<"429", "nostatus">>
    /\ frame.res.result = "nostatus"
    /\ frame.res.thrownAt = 2
    /\ frame.res.logs = 1

\* C32: the k-th wait of retryWithBackoff lasts initialDelayMs * 2^(k-1)
\* milliseconds, there are at most maxAttempts - 1 waits, and with the
\* pipeline's settings (5000 ms, 6 attempts) a call that is rate limited
\* throughout waits 5000, 10000, 20000, 40000 and 80000 ms.
C32_ExponentialWaits ==
    frame.fn = "retryWithBackoff" =>
        LET waits == frame.res.waits
        IN /\ Len(waits) <= frame.maxAttempts - 1
           /\ \A k \in 1..Len(waits) : waits[k] = frame.initialDelayMs * 2^(k - 1)
           /\ (/\ frame.initialDelayMs = 5000
               /\ frame.maxAttempts = PipelineMaxAttempts
               /\ frame.history = [i \in 1..PipelineMaxAttempts |-> "429"]) =>
                  waits = <<5000, 10000, 20000, 40000, 80000>>

\* The pipeline's executor has been rate limited on all 6 invocations.
C32_Witness ==
    /\ frame.fn = "retryWithBackoff"
    /\ frame.initialDelayMs = 5000
    /\ frame.maxAttempts = PipelineMaxAttempts
    /\ Len(frame.history) = PipelineMaxAttempts
    /\ frame.res.result = "429"
    /\ Len(frame.res.waits) = 5

\* The names of the topics run r validated, and of those it persisted.
ValidatedNames(r) == {runs[r].cur[k].topic : k \in 1..Len(runs[r].cur)}
PersistedNames(r) == {runs[r].out[k].topic : k \in 1..Len(runs[r].out)}

\* C33: when a run's persistence has committed and the run ends, the job is
\* succeeded; if validation excluded a topic (and another survived), the
\* summary is "mixed", lists exactly the excluded topics and the error
\* message is set; if no topic was excluded the summary is "approved" and
\* no error message is set.
C33_MixedOutcome ==
    [][\A r \in RunIds :
          (runs[r].pc = "committed" /\ RunEnds(r)) =>
             LET excluded == ValidatedNames(r) \ PersistedNames(r)
                 record == jobStore'[1]
                 summary == record.summary[1]
                 listed == {summary.topicSummaries[i] :
                              i \in 1..Len(summary.topicSummaries)}
             IN /\ record.status = "succeeded"
                /\ IsDef(record.summary)
                /\ PersistedNames(r) # {}
                /\ listed = excluded
                /\ excluded # {} =>
                     /\ summary.overallStatus = "mixed"
                     /\ record.error # NoString
                /\ excluded = {} =>
                     /\ summary.overallStatus = "approved"
                     /\ record.error = NoString]_vars

\* The committed chapter rows of the subject and class under the plain title,
\* and under the plain title or the legacy label.
PlainChapterRows(chapters) ==
    {r \in chapters : r.insertedBy = 0 /\ r.chapter_name = normalizedChapterTitle}
KnownChapterRows(chapters) ==
    {r \in chapters : r.insertedBy = 0
                      /\ r.chapter_name \in {normalizedChapterTitle, chapterLogLabel}}

\* C34: a persistence run inserts a chapter row only when the table holds no
\* row of the subject and class under the plain title or the legacy label;
\* when a run commits, exactly one row carries the plain title, that row
\* carries the incoming syllabus, and the persisted topic points at it.
C34_ChapterResolved ==
    [][frame.fn = "persistChapterToDatabase" =>
         \A t \in Transactions :
            /\ (frame.tx[t].pc = "insertChapter" /\ frame'.tx[t].pc = "upsertTopic") =>
                   KnownChapterRows(frame.chapters) = {}
            /\ (frame.tx[t].pc = "commit" /\ frame'.tx[t].pc = "committed") =>
                   /\ Cardinality(PlainChapterRows(frame'.chapters)) = 1
                   /\ \A r \in PlainChapterRows(frame'.chapters) :
                         /\ r.syllabus = Def(normalizedSyllabus)
                         /\ frame'.topicChapter = r.id]_vars

\* C35: a run that has started ends, with the job succeeded or failed, once
\* every external call returns or fails; on the way the generation call is
\* invoked at most 6 times for a topic, the batch is submitted to the
\* validator at most 2 x 6 times and at most one persistence transaction
\* is opened.
C35_RunsTerminate ==
    /\ [](frame.fn = "run" =>
            /\ \A k \in DOMAIN frame.generations : frame.generations[k] <= 6
            /\ frame.submissions <= 2 * 6
            /\ frame.transactions <= 1
            /\ frame.pc = "ended" => frame.status \in {"succeeded", "failed"})
    /\ (frame.fn = "run" /\ frame.pc = "start")
          ~> (frame.pc = "ended" /\ frame.status \in {"succeeded", "failed"})

\* A processJob run has succeeded after every executor was rate limited
\* five times in a row, in both validation attempts.
C35_Witness ==
    /\ frame.fn = "run"
    /\ frame.kind = "processJob"
    /\ frame.pc = "ended"
    /\ frame.status = "succeeded"
    /\ frame.generations[1] = 6
    /\ frame.submissions = 12
    /\ frame.transactions = 1

\* C36: in every state of a job, a retry flag that is set implies status
\* failed and a non-empty generated snapshot; with status pending,
\* processing or succeeded both flags are false.
C36_RetryFlagsInvariant ==
    HasJob =>
        LET record == jobStore[1]
            flagged == record.allowValidationRetry \/ record.allowPersistenceRetry
        IN /\ flagged => (record.status = "failed" /\ HasSnapshot(record))
           /\ record.status \in {"pending", "processing", "succeeded"} => ~flagged

\* A run has failed and left a retry flag set while another run of the job
\* is still under way.
C36_Witness ==
    /\ HasJob
    /\ jobStore[1].status = "failed"
    /\ jobStore[1].allowPersistenceRetry
    /\ HasSnapshot(jobStore[1])
    /\ ActiveRuns # {}

\* The question row a data row of the CSV table corresponds to, and the data
\* rows of a table (header row first) under a topic name, as question rows.
QuestionOfCsvRow(row) ==
    [question_text |-> row[2],
     option_a |-> row[3], option_b |-> row[4],
     option_c |-> row[5], option_d |-> row[6],
     correct_answer |-> row[7],
     explanation |-> row[8]]
RECURSIVE CsvQuestions(_, _)
CsvQuestions(rows, name) ==
    IF rows = <<>> THEN <<>>
    ELSE (IF Head(rows)[1] = name THEN <<QuestionOfCsvRow(Head(rows))>> ELSE <<>>)
         \o CsvQuestions(Tail(rows), name)

\* C37: a run ends succeeded only after its persistence transaction has
\* committed, and then the data rows of the result CSV correspond one to one
\* to the question rows the database holds for the surviving topics: for
\* each such topic, as many rows, with the same question text, four option
\* texts, correct letter and explanation, for every topic list a job can be
\* created with.
C37_CsvMatchesDatabase ==
    [][\A r \in RunIds :
          (RunEnds(r) /\ StatusOf(jobStore') = "succeeded") =>
             /\ runs[r].pc = "committed"
             /\ IsDef(jobStore'[1].resultCsv)
             /\ \A name \in PersistedNames(r) :
                   CsvQuestions(Tail(jobStore'[1].resultCsv[1]), name)
                       = db'.questions[name]]_vars

\* In the step, which answers attempt 2 of run r, a question of bucket k is
\* overwritten by a replacement, and no question of a topic of that name is
\* rejected without one.
ReplacedOnLastAttempt(r, k) ==
    LET ref == runs[r].cur[k].items
    IN /\ runs[r].pc = "validate"
       /\ runs[r].attempt = 2
       /\ \E i \in DOMAIN heap[ref] \cap DOMAIN heap'[ref] :
             ~IsReplacement(heap[ref][i]) /\ IsReplacement(heap'[ref][i])
       /\ \A j \in (Len(runs[r].failed) + 1)..Len(runs'[r].failed) :
             runs'[r].failed[j] # runs[r].cur[k].topic

\* C38: when the validator rejects questions of a topic on attempt 2 and
\* supplies a replacement for each rejection, the replacements are applied
\* and the topic survives: the run goes on to persistence and the CSV with
\* that topic and its replaced questions, which no validator call has judged.
C38_LastAttemptReplacementsSurvive ==
    [][\A r \in RunIds : \A k \in DOMAIN runs[r].cur :
          ReplacedOnLastAttempt(r, k) =>
             /\ runs'[r].pc = "persist"
             /\ \E j \in DOMAIN runs'[r].out :
                   /\ runs'[r].out[j].topic = runs[r].cur[k].topic
                   /\ runs'[r].out[j].items = heap'[runs[r].cur[k].items]]_vars

\* The step in which the generation call of a topic of processJob fails.
GenerationFails ==
    /\ runs[0].pc = "generate"
    /\ runs'[0].pc = "idle"

\* The job has failed before any snapshot of generated batches was stored.
FailedWithoutSnapshot ==
    /\ HasJob
    /\ Rec.status = "failed"
    /\ Rec.generatedTopics = Undefined

\* C39: when the generation of a topic fails (after backoff), the job ends
\* failed with no snapshot and both retry flags false, the batches of the
\* earlier topics are dropped, no validation run starts and the database is
\* untouched; from then on nothing more happens to the job: no generation,
\* validation or persistence call, and both retry routes answer 400.
C39_GenerationFailureEndsJob ==
    [][/\ GenerationFails =>
             /\ jobStore'[1].status = "failed"
             /\ jobStore'[1].generatedTopics = Undefined
             /\ ~jobStore'[1].allowValidationRetry
             /\ ~jobStore'[1].allowPersistenceRetry
             /\ RetryRouteStatus(jobStore') = 400
             /\ \A r \in RunIds : runs'[r].pc = "idle"
             /\ \A ref \in Refs : heap'[ref] = <<>>
             /\ db' = db
             /\ retryCalls' = 0
       /\ FailedWithoutSnapshot =>
             /\ RetryRouteStatus(jobStore) = 400
             /\ UNCHANGED <<jobStore, heap, runs, db, retryCalls, genCalls>>]_vars

\* The second of two topics has failed after the first was generated.
C39_Witness ==
    /\ FailedWithoutSnapshot
    /\ Len(Rec.payload.topics) = 2
    /\ Rec.openAiUsage = 1
    /\ ~Rec.allowValidationRetry
    /\ ~Rec.allowPersistenceRetry
    /\ RetryRouteStatus(jobStore) = 400

\* The topics a run has validated and does not persist.
ExcludedNames(r) == ValidatedNames(r) \ PersistedNames(r)

\* C40: the persistence call of a run touches only its surviving topics:
\* over the committing transaction the topic row and the question rows of
\* every topic that validation excluded stay what they were.
C40_ExcludedTopicsUntouched ==
    [][\A r \in RunIds :
          (runs[r].pc = "persist" /\ runs'[r].pc = "committed") =>
             \A name \in ExcludedNames(r) :
                /\ db'.questions[name] = db.questions[name]
                /\ (name \in db'.topics) = (name \in db.topics)]_vars

\* A run has committed while an excluded topic holds question rows that an
\* earlier run has stored.
C40_Witness ==
    \E r \in RunIds :
       /\ runs[r].pc = "committed"
       /\ \E name \in ExcludedNames(r) :
             /\ name \in db.topics
             /\ db.questions[name] # <<>>

====
